---- MODULE Spec2Model ----
(***************************************************************************)
(* A model of the SMTP server of UA-1240-C/smtp-server-rust:               *)
(*   - the cooperative task runtime (crates/concurrent_runtime): the       *)
(*     thread pool, the executors' poll loops and the shared task queue;   *)
(*   - the transport stream (crates/smart_stream): AsyncStream;            *)
(*   - the SMTP session state machine (crates/client_session).             *)
(* Each part has its own next-state relation and specification; the        *)
(* variables of the other parts stay at their initial values.              *)
(***************************************************************************)
EXTENDS Integers, Sequences, FiniteSets, TLC

\* ------------------------------------------------------------------ bounds
\* Number of worker threads of the pool (ConcurrentRuntime::new(num_threads)).
NumWorkers == 2
\* Number of tasks spawned in one run of the model.
MaxTasks == 4

\* Longest accumulated response of a stream read followed in the model.
MaxResponse == 4

\* Largest number of recipients of one transaction followed in the model.
MaxRcpt == 2

\* Number of jobs handed to ThreadPool::execute beyond one per worker.
ExtraJobs == 2

Workers == 1..NumWorkers
Tasks == 1..MaxTasks
Jobs == 1..(NumWorkers + ExtraJobs)

VARIABLES
    \* ---- concurrent_runtime
    queue,      \* ExecutorManager.global_async_queue: the SegQueue<Task>, head first
    tstatus,    \* per task: "none" (not spawned), "alive", "ready" (returned Ready), "panicked"
    pended,     \* per task: it is alive and its last poll returned Pending
    channel,    \* ThreadPool's channel of Message, head first
    term_flag,  \* per executor: Executor.termination_flag
    nexec,      \* ExecutorManager.executors.len()
    wpc,        \* per worker thread: its position
    wexec,      \* per worker: the executor whose run() it is in (0: none)
    wseen,      \* per worker: the value its last termination_flag.load() returned
    held,       \* per worker: the task popped and being polled (0: none)
    phase,      \* the owner thread of the runtime: its position
    idx,        \* the owner thread's loop index in start / stop / drop
    runs,       \* per job sent as NewJob: the number of times a worker has called it
    \* ---- smart_stream: one AsyncStream and its socket
    m_stream,   \* AsyncStream.m_stream: "Plain", "Encrypted" or "None"
    peer,       \* the socket as is_open's peek sees it: "up", or "down" (end of file or error)
    response,   \* read_until_crlf's accumulator while a read is in progress
    reading,    \* a read() call is in progress (suspended at an underlying read)
    sres,       \* the last call that returned: its name, its result, the state it was made in
    ever_enc,   \* m_stream has been Encrypted at some time
    silent,     \* the peer has stopped sending: it keeps the connection open and writes nothing
    \* ---- client_session: one ClientSession, its stream being m_stream / peer
    spc,              \* the session task's position: "new", "loop" (run's loop head),
                      \* "data" (in read_data_until_dot), "ok" / "err_io" / "err_tls" /
                      \* "err_db" (run returned Ok / that error), "panic"
    current_state,    \* ClientSession.current_state
    connection,       \* ClientSession.connection: "Some" or "None"
    connection_data,  \* ClientSession.connection_data
    db_connection,    \* ClientSession.db_connection: PgMailDB's conn (is some) and user_id
    data,             \* read_data_until_dot's accumulator
    out,              \* the replies written by the handler that ran last
    lastreq,          \* what the last handle_new_request read and parsed
    ins,              \* the last handler's insert_multiple_emails: "none", "ok", "err"
    dfail,            \* the last handler was a DATA that failed
    iter,             \* read_data_until_dot's loop: the number of its iterations so far, modulo 2
    rset_clean,       \* a RSET was received and no MAIL FROM, RCPT TO or DATA since
    \* ---- mail_database: one PgMailDB handle and the database behind it
    pg,         \* the PgMailDB: conn (is some), host_id (0: the default), user_id ("": none)
    tables,     \* the database: the rows of users, the numbers of rows of mailBodies and emailMessages
    dbres,      \* the last call that returned: its name, its result, the state it was made in
    disc,       \* disconnect() was called and no connect() has returned Ok since
    \* ---- two ClientSessions, each with its stream and its PgMailDB, on the database tables
    sess,       \* per session: the ClientSession, as the record Session gives it
    tosend,     \* per session: what its client has still to send, in order
    \* ---- request_parser: one line put through RequestType::parse and Display
    line,       \* the line handed to parse, as its characters
    parsed,     \* what parse returned for it (NoRequest: not called yet)
    shown       \* the Display text of what parse returned (<<>>: not formatted yet)

rt_vars == <<queue, tstatus, pended, channel, term_flag, nexec,
             wpc, wexec, wseen, held, phase, idx, runs>>

st_vars == <<m_stream, peer, response, reading, sres, ever_enc, silent>>

ss_vars == <<spc, current_state, connection, connection_data, db_connection,
             data, out, lastreq, ins, dfail, iter, rset_clean>>

db_vars == <<pg, tables, dbres, disc>>

cc_vars == <<sess, tosend>>

rp_vars == <<line, parsed, shown>>

vars == <<rt_vars, st_vars, ss_vars, db_vars, cc_vars, rp_vars>>

\* What the steps of one part leave alone: the variables of the other parts.
not_rt_vars == <<st_vars, ss_vars, db_vars, cc_vars, rp_vars>>
not_st_vars == <<rt_vars, ss_vars, db_vars, cc_vars, rp_vars>>
not_ss_vars == <<rt_vars, response, reading, sres, silent, db_vars, cc_vars, rp_vars>>
not_db_vars == <<rt_vars, st_vars, ss_vars, cc_vars, rp_vars>>
not_cc_vars == <<rt_vars, st_vars, ss_vars, pg, dbres, disc, rp_vars>>
not_rp_vars == <<rt_vars, st_vars, ss_vars, db_vars, cc_vars>>

\* ------------------------------------------------------ concurrent_runtime

\* SegQueue::push: the task goes to the tail.
SegQueue_push(q, t) == Append(q, t)

\* SegQueue::pop as Executor::run uses it: what is left of the queue.
SegQueue_pop_rest(q) == Tail(q)

\* What one poll of a future can do: return Poll::Ready, return
\* Poll::Pending, or panic. Which one is the future's business, an input here.
PollResults == {"Ready", "Pending", "Panic"}

\* A mutant of Executor_run_requeue: the task is pushed back whatever the
\* poll returned.
Executor_run_requeue_always(q, t, r) == SegQueue_push(q, t)

\* What Executor::run does with the queue after a poll of t gave result r:
\* Pending pushes the task back, Ready drops it, and a panic unwinds (the
\* task is dropped with the frame).
Executor_run_requeue(q, t, r) == IF r = "Pending" THEN SegQueue_push(q, t) ELSE q

\* The position of the worker thread after a poll gave result r. There is no
\* catch_unwind in Executor::run, in the job closure or in Worker::new's
\* thread closure: a panic unwinds the whole thread.
Executor_run_after_poll(r) == IF r = "Panic" THEN "dead" ELSE "loop"

RtInit ==
    /\ queue = <<>>
    /\ tstatus = [t \in Tasks |-> "none"]
    /\ pended = [t \in Tasks |-> FALSE]
    /\ channel = <<>>
    /\ term_flag = [e \in Workers |-> FALSE]
    /\ nexec = 0
    /\ wpc = [w \in Workers |-> "recv"]
    /\ wexec = [w \in Workers |-> 0]
    /\ wseen = [w \in Workers |-> FALSE]
    /\ held = [w \in Workers |-> 0]
    /\ phase = "created"
    /\ idx = 0
    /\ runs = [j \in Jobs |-> 0]

\* ConcurrentRuntime::spawn -> ExecutorManager::create_async_task: box the
\* future and push it.
ConcurrentRuntime_spawn ==
    /\ UNCHANGED not_rt_vars
    /\ UNCHANGED runs
    /\ phase \in {"created", "running", "stopped"}
    /\ \E t \in Tasks :
        /\ tstatus[t] = "none"
        /\ \A u \in Tasks : u < t => tstatus[u] # "none"
        /\ tstatus' = [tstatus EXCEPT ![t] = "alive"]
        /\ queue' = SegQueue_push(queue, t)
    /\ UNCHANGED <<pended, channel, term_flag, nexec, wpc, wexec, wseen, held, phase, idx>>

\* ConcurrentRuntime::start: for each of the workers_count() workers,
\* create_executor (flag clear) and ThreadPool::execute, which sends
\* NewJob(closure entering that executor's run).
ConcurrentRuntime_start ==
    /\ UNCHANGED not_rt_vars
    /\ UNCHANGED runs
    /\ phase = "created"
    /\ phase' = "running"
    /\ nexec' = NumWorkers
    /\ term_flag' = [e \in Workers |-> FALSE]
    /\ channel' = channel \o [i \in 1..NumWorkers |-> [kind |-> "NewJob", exec |-> i]]
    /\ UNCHANGED <<queue, tstatus, pended, wpc, wexec, wseen, held, idx>>

\* Worker::new's thread loop: receiver.recv(), then NewJob runs the job and
\* Terminate breaks.
Worker_recv(w) ==
    /\ UNCHANGED not_rt_vars
    /\ wpc[w] = "recv"
    /\ channel # <<>>
    /\ channel' = Tail(channel)
    /\ IF Head(channel).kind = "NewJob"
       THEN /\ wpc' = [wpc EXCEPT ![w] = "loop"]
            /\ wexec' = [wexec EXCEPT ![w] = Head(channel).exec]
            /\ runs' = [runs EXCEPT ![Head(channel).exec] = @ + 1]
       ELSE /\ wpc' = [wpc EXCEPT ![w] = "exited"]
            /\ UNCHANGED <<wexec, runs>>
    /\ UNCHANGED <<queue, tstatus, pended, term_flag, nexec, wseen, held, phase, idx>>

\* Executor::run, loop head: termination_flag.load(Relaxed).
Executor_run_load(w) ==
    /\ UNCHANGED not_rt_vars
    /\ UNCHANGED runs
    /\ wpc[w] = "loop"
    /\ wseen' = [wseen EXCEPT ![w] = term_flag[wexec[w]]]
    /\ wpc' = [wpc EXCEPT ![w] = "branch"]
    /\ UNCHANGED <<queue, tstatus, pended, channel, term_flag, nexec, wexec, held, phase, idx>>

\* A mutant of Executor_run_pop: the queue is popped whatever the flag was.
Executor_run_pop_always(w) ==
    /\ UNCHANGED not_rt_vars
    /\ UNCHANGED runs
    /\ wpc[w] = "branch"
    /\ IF queue # <<>>
       THEN /\ held' = [held EXCEPT ![w] = Head(queue)]
            /\ queue' = SegQueue_pop_rest(queue)
            /\ wpc' = [wpc EXCEPT ![w] = "poll"]
       ELSE /\ wpc' = [wpc EXCEPT ![w] = "loop"]
            /\ UNCHANGED <<held, queue>>
    /\ wseen' = [wseen EXCEPT ![w] = FALSE]
    /\ UNCHANGED <<tstatus, pended, channel, term_flag, nexec, wexec, phase, idx>>

\* Executor::run: if the flag was clear, global_queue.pop(); with a task, go
\* on to poll it; with none, or with the flag set, next iteration of the loop
\* (the loop has no break).
Executor_run_pop(w) ==
    /\ UNCHANGED not_rt_vars
    /\ UNCHANGED runs
    /\ wpc[w] = "branch"
    /\ IF ~wseen[w] /\ queue # <<>>
       THEN /\ held' = [held EXCEPT ![w] = Head(queue)]
            /\ queue' = SegQueue_pop_rest(queue)
            /\ wpc' = [wpc EXCEPT ![w] = "poll"]
       ELSE /\ wpc' = [wpc EXCEPT ![w] = "loop"]
            /\ UNCHANGED <<held, queue>>
    /\ wseen' = [wseen EXCEPT ![w] = FALSE]
    /\ UNCHANGED <<tstatus, pended, channel, term_flag, nexec, wexec, phase, idx>>

\* Executor::run: task.as_mut().poll(cx) and the match on its result.
Executor_run_poll(w, r) ==
    /\ UNCHANGED not_rt_vars
    /\ UNCHANGED runs
    /\ wpc[w] = "poll"
    /\ LET t == held[w]
       IN /\ queue' = Executor_run_requeue(queue, t, r)
          /\ tstatus' = [tstatus EXCEPT ![t] =
                            CASE r = "Ready" -> "ready"
                              [] r = "Panic" -> "panicked"
                              [] OTHER -> "alive"]
          /\ pended' = [pended EXCEPT ![t] = r = "Pending"]
          /\ wpc' = [wpc EXCEPT ![w] = Executor_run_after_poll(r)]
    /\ held' = [held EXCEPT ![w] = 0]
    /\ UNCHANGED <<channel, term_flag, nexec, wexec, wseen, phase, idx>>

\* ConcurrentRuntime::stop -> ExecutorManager::stop, entry of its for loop.
ConcurrentRuntime_stop ==
    /\ UNCHANGED not_rt_vars
    /\ UNCHANGED runs
    /\ phase = "running"
    /\ phase' = "stopping"
    /\ idx' = 0
    /\ UNCHANGED <<queue, tstatus, pended, channel, term_flag, nexec,
                   wpc, wexec, wseen, held>>

\* One iteration of ExecutorManager::stop: Executor::stop stores true.
ExecutorManager_stop_iter ==
    /\ UNCHANGED not_rt_vars
    /\ UNCHANGED runs
    /\ phase = "stopping"
    /\ IF idx < nexec
       THEN /\ term_flag' = [term_flag EXCEPT ![idx + 1] = TRUE]
            /\ idx' = idx + 1
            /\ phase' = phase
       ELSE /\ phase' = "stopped"
            /\ idx' = 0
            /\ UNCHANGED term_flag
    /\ UNCHANGED <<queue, tstatus, pended, channel, nexec, wpc, wexec, wseen, held>>

\* A NewJob message carrying job j.
NewJob(j) == [kind |-> "NewJob", exec |-> j]

\* Job j has been handed to execute(): it is in the channel or was received.
Sent(j) == runs[j] > 0 \/ \E i \in DOMAIN channel : channel[i] = NewJob(j)

\* ThreadPool::execute called on the pool by itself with a closure that
\* returns: the next job is boxed and sent as NewJob.
ThreadPool_execute ==
    /\ UNCHANGED not_rt_vars
    /\ phase = "created"
    /\ \E j \in Jobs :
        /\ ~Sent(j)
        /\ \A k \in Jobs : k < j => Sent(k)
        /\ channel' = Append(channel, NewJob(j))
    /\ UNCHANGED <<queue, tstatus, pended, term_flag, nexec, wpc, wexec, wseen, held,
                   phase, idx, runs>>

\* Worker::new's thread loop: job() returns and the loop goes back to
\* receiver.recv(). (The closure ConcurrentRuntime::start sends never does.)
Worker_job_returns(w) ==
    /\ UNCHANGED not_rt_vars
    /\ wpc[w] = "loop"
    /\ wpc' = [wpc EXCEPT ![w] = "recv"]
    /\ wexec' = [wexec EXCEPT ![w] = 0]
    /\ UNCHANGED <<queue, tstatus, pended, channel, term_flag, nexec, wseen, held,
                   phase, idx, runs>>

\* A mutant of ThreadPool_drop: the Terminate messages go to the front of
\* the channel.
ThreadPool_drop_front ==
    /\ UNCHANGED not_rt_vars
    /\ phase \in {"created", "running", "stopped"}
    /\ phase' = "joining"
    /\ idx' = 0
    /\ channel' = [i \in 1..NumWorkers |-> [kind |-> "Terminate", exec |-> 0]] \o channel
    /\ UNCHANGED <<queue, tstatus, pended, term_flag, nexec, wpc, wexec, wseen, held, runs>>

\* Drop for ThreadPool, first loop: one Terminate per worker.
ThreadPool_drop ==
    /\ UNCHANGED not_rt_vars
    /\ UNCHANGED runs
    /\ phase \in {"created", "running", "stopped"}
    /\ phase' = "joining"
    /\ idx' = 0
    /\ channel' = channel \o [i \in 1..NumWorkers |-> [kind |-> "Terminate", exec |-> 0]]
    /\ UNCHANGED <<queue, tstatus, pended, term_flag, nexec, wpc, wexec, wseen, held>>

\* Drop for ThreadPool, second loop: thread.join() of the next worker returns
\* once that thread has ended (by break after Terminate, or by unwinding).
ThreadPool_drop_join ==
    /\ UNCHANGED not_rt_vars
    /\ UNCHANGED runs
    /\ phase = "joining"
    /\ IF idx < NumWorkers
       THEN /\ wpc[idx + 1] \in {"exited", "dead"}
            /\ idx' = idx + 1
            /\ phase' = phase
       ELSE /\ phase' = "dropped"
            /\ idx' = 0
    /\ UNCHANGED <<queue, tstatus, pended, channel, term_flag, nexec,
                   wpc, wexec, wseen, held>>

WorkerStep(w) ==
    \/ Worker_recv(w)
    \/ Executor_run_load(w)
    \/ Executor_run_pop(w)
    \/ \E r \in PollResults : Executor_run_poll(w, r)

OwnerStep ==
    \/ ConcurrentRuntime_start
    \/ ConcurrentRuntime_stop
    \/ ExecutorManager_stop_iter
    \/ ThreadPool_drop
    \/ ThreadPool_drop_join

RtNext ==
    \/ ConcurrentRuntime_spawn
    \/ OwnerStep
    \/ \E w \in Workers : WorkerStep(w)

\* The thread pool used by itself, with jobs that return.
PoolNext ==
    \/ ThreadPool_execute
    \/ \E w \in Workers : Worker_recv(w) \/ Worker_job_returns(w)
    \/ ThreadPool_drop
    \/ ThreadPool_drop_join

\* ------------------------------------------------------------ smart_stream

\* AsyncStream.m_buffsize, 1024 in the source, scaled down: the largest
\* number of bytes one underlying read returns.
m_buffsize == 2

\* The bytes the model tells apart: carriage return, line feed, any other.
Bytes == {"CR", "LF", "a"}

\* What one underlying read can return: between 1 and m_buffsize bytes.
Chunks == UNION {[1..n -> Bytes] : n \in 1..m_buffsize}

\* <[u8]>::ends_with / str::ends_with.
ends_with(str, suffix) ==
    /\ Len(str) >= Len(suffix)
    /\ SubSeq(str, Len(str) - Len(suffix) + 1, Len(str)) = suffix

CRLF == <<"CR", "LF">>

\* AsyncStream::is_open: there is an inner stream and the peek on its socket
\* returns bytes or WouldBlock.
AsyncStream_is_open(ms, p) == ms # "None" /\ p = "up"

\* A mutant of AsyncStream_accept_tls: an Encrypted stream is put back and
\* the call succeeds.
AsyncStream_accept_tls_again(ms, p, hs) ==
    IF ~AsyncStream_is_open(ms, p) THEN [m_stream |-> ms, res |-> "ClosedConnection"]
    ELSE IF ms = "Plain" /\ ~hs THEN [m_stream |-> "None", res |-> "Tls_NativeTls"]
    ELSE [m_stream |-> "Encrypted", res |-> "Ok"]

\* AsyncStream::accept_tls on inner stream ms with the socket p, the
\* handshake succeeding or not (hs): the new inner stream and the result.
\* The inner stream is taken out of the option before the match, and only a
\* successful handshake puts one back.
AsyncStream_accept_tls(ms, p, hs) ==
    IF ~AsyncStream_is_open(ms, p) THEN [m_stream |-> ms, res |-> "ClosedConnection"]
    ELSE IF ms = "Plain"
         THEN IF hs THEN [m_stream |-> "Encrypted", res |-> "Ok"]
                    ELSE [m_stream |-> "None", res |-> "Tls_NativeTls"]
         ELSE [m_stream |-> "None", res |-> "Tls_StreamAlreadyEncrypted"]

\* A mutant of AsyncStream::connect_tls: a failed upgrade puts the inner
\* stream back.
AsyncStream_connect_tls_restores(ms, p, addr, hs) ==
    IF ~AsyncStream_is_open(ms, p) THEN [m_stream |-> ms, res |-> "ClosedConnection"]
    ELSE IF ms = "Plain"
         THEN IF ~addr THEN [m_stream |-> ms, res |-> "Io"]
              ELSE IF hs THEN [m_stream |-> "Encrypted", res |-> "Ok"]
                         ELSE [m_stream |-> ms, res |-> "Tls_NativeTls"]
         ELSE [m_stream |-> ms, res |-> "Tls_StreamAlreadyEncrypted"]

\* AsyncStream::connect_tls; addr: peer_addr() succeeds, hs: the handshake does.
AsyncStream_connect_tls(ms, p, addr, hs) ==
    IF ~AsyncStream_is_open(ms, p) THEN [m_stream |-> ms, res |-> "ClosedConnection"]
    ELSE IF ms = "Plain"
         THEN IF ~addr THEN [m_stream |-> "None", res |-> "Io"]
              ELSE IF hs THEN [m_stream |-> "Encrypted", res |-> "Ok"]
                         ELSE [m_stream |-> "None", res |-> "Tls_NativeTls"]
         ELSE [m_stream |-> "None", res |-> "Tls_StreamAlreadyEncrypted"]

\* AsyncStream::write; io: the inner stream's write succeeds.
AsyncStream_write(ms, p, io) ==
    IF AsyncStream_is_open(ms, p)
    THEN IF io THEN "Ok" ELSE "Io"
    ELSE "ClosedConnection"

\* A mutant of AsyncStream::close: the socket is shut down and the option
\* keeps its value.
AsyncStream_close_keeps(ms) == ms

\* AsyncStream::close (and Drop): shutdown of the socket, the option emptied.
AsyncStream_close(ms) == "None"

\* The record sres keeps of a call that returned.
Returned(op, res) ==
    [op |-> op, res |-> res, pre |-> m_stream, pre_open |-> AsyncStream_is_open(m_stream, peer),
     pre_ever |-> ever_enc]

StInit ==
    /\ m_stream = "Plain"
    /\ peer = "up"
    /\ response = <<>>
    /\ reading = FALSE
    /\ sres = [op |-> "new", res |-> "Ok", pre |-> "None", pre_open |-> FALSE, pre_ever |-> FALSE]
    /\ ever_enc = FALSE
    /\ silent = FALSE

\* The peer closes the connection, or the socket fails.
Peer_down ==
    /\ UNCHANGED not_st_vars
    /\ peer = "up"
    /\ peer' = "down"
    /\ UNCHANGED <<m_stream, response, reading, sres, ever_enc, silent>>

\* The peer stops sending and keeps the connection open.
Peer_silent ==
    /\ UNCHANGED not_st_vars
    /\ peer = "up"
    /\ ~silent
    /\ silent' = TRUE
    /\ UNCHANGED <<m_stream, peer, response, reading, sres, ever_enc>>

Stream_accept_tls(hs) ==
    /\ UNCHANGED not_st_vars
    /\ ~reading
    /\ LET r == AsyncStream_accept_tls(m_stream, peer, hs)
       IN /\ m_stream' = r.m_stream
          /\ sres' = Returned("accept_tls", r.res)
          /\ ever_enc' = (ever_enc \/ r.m_stream = "Encrypted")
    /\ UNCHANGED <<peer, response, reading, silent>>

Stream_connect_tls(addr, hs) ==
    /\ UNCHANGED not_st_vars
    /\ ~reading
    /\ LET r == AsyncStream_connect_tls(m_stream, peer, addr, hs)
       IN /\ m_stream' = r.m_stream
          /\ sres' = Returned("connect_tls", r.res)
          /\ ever_enc' = (ever_enc \/ r.m_stream = "Encrypted")
    /\ UNCHANGED <<peer, response, reading, silent>>

Stream_write(io) ==
    /\ UNCHANGED not_st_vars
    /\ ~reading
    /\ sres' = Returned("write", AsyncStream_write(m_stream, peer, io))
    /\ UNCHANGED <<m_stream, peer, response, reading, ever_enc, silent>>

Stream_close ==
    /\ UNCHANGED not_st_vars
    /\ ~reading
    /\ m_stream' = AsyncStream_close(m_stream)
    /\ sres' = Returned("close", "Ok")
    /\ UNCHANGED <<peer, response, reading, ever_enc, silent>>

\* AsyncStream::read, entry: ClosedConnection unless is_open, else into
\* read_until_crlf with an empty response.
Stream_read ==
    /\ UNCHANGED not_st_vars
    /\ ~reading
    /\ IF AsyncStream_is_open(m_stream, peer)
       THEN /\ reading' = TRUE
            /\ response' = <<>>
            /\ UNCHANGED sres
       ELSE /\ sres' = Returned("read", "ClosedConnection")
            /\ UNCHANGED <<reading, response>>
    /\ UNCHANGED <<m_stream, peer, ever_enc, silent>>

\* One iteration of read_until_crlf's loop: not open any more, or the
\* underlying read returning 0 bytes, ends the read with what was
\* accumulated; an I/O error (io false) ends it with Io; otherwise the chunk
\* is appended, and the read ends when the chunk ends with CRLF. The
\* underlying read is awaited with no timer around it: while the peer is
\* connected and silent it does not return.
Stream_read_chunk(chunk, io) ==
    /\ UNCHANGED not_st_vars
    /\ reading
    /\ ~(silent /\ AsyncStream_is_open(m_stream, peer))
    /\ IF ~AsyncStream_is_open(m_stream, peer)
       THEN /\ sres' = Returned("read", "Ok")
            /\ reading' = FALSE
            /\ UNCHANGED response
       ELSE IF ~io
       THEN /\ sres' = Returned("read", "Io")
            /\ reading' = FALSE
            /\ UNCHANGED response
       ELSE /\ Len(response) + Len(chunk) <= MaxResponse
            /\ response' = response \o chunk
            /\ IF ends_with(chunk, CRLF)
               THEN /\ sres' = Returned("read", "Ok")
                    /\ reading' = FALSE
               ELSE UNCHANGED <<sres, reading>>
    /\ UNCHANGED <<m_stream, peer, ever_enc, silent>>

StNext ==
    \/ Peer_down
    \/ Peer_silent
    \/ \E hs \in BOOLEAN : Stream_accept_tls(hs)
    \/ \E addr \in BOOLEAN, hs \in BOOLEAN : Stream_connect_tls(addr, hs)
    \/ \E io \in BOOLEAN : Stream_write(io)
    \/ Stream_close
    \/ Stream_read
    \/ \E chunk \in Chunks, io \in BOOLEAN : Stream_read_chunk(chunk, io)

\* ---------------------------------------------------------- client_session

\* read_data_until_dot's MAX_SIZE, 1024 * 1024 * 2 in the source, scaled down.
MAX_SIZE == 6

\* The users table of the store: user name -> password. The session never
\* calls sign_up (REGISTER only advances the state), so it is fixed.
Registered == [u \in {"u1"} |-> "pw"]

\* The addresses of MAIL FROM and RCPT TO commands: a user and a stranger.
Addrs == {"u1", "x"}

\* The arguments of AUTH PLAIN followed: base64 of "\0u1\0pw", of "\0u1\0bad",
\* of "\0x\0pw", of "\0u1", of "u1", of the byte 0xFF, and a text that is
\* not base64.
AuthArgs == {"AHUxAHB3", "AHUxAGJhZA==", "AHgAcHc=", "AHUx", "dTE=", "/w==", "!!"}

\* base64::decode of these arguments: Err for what is not base64, a panic
\* (String::from_utf8(..).unwrap()) for bytes that are not UTF-8, else the
\* decoded string, given here as split("\0") gives it.
base64_decode(arg) ==
    CASE arg = "AHUxAHB3" -> [kind |-> "Ok", parts |-> <<"", "u1", "pw">>]
      [] arg = "AHUxAGJhZA==" -> [kind |-> "Ok", parts |-> <<"", "u1", "bad">>]
      [] arg = "AHgAcHc=" -> [kind |-> "Ok", parts |-> <<"", "x", "pw">>]
      [] arg = "AHUx" -> [kind |-> "Ok", parts |-> <<"", "u1">>]
      [] arg = "dTE=" -> [kind |-> "Ok", parts |-> <<"u1">>]
      [] arg = "/w==" -> [kind |-> "Panic", parts |-> <<>>]
      [] OTHER -> [kind |-> "Err", parts |-> <<>>]

Cmd(t, arg) == [kind |-> "cmd", t |-> t, arg |-> arg]

\* What RequestType::parse can return for a line read: each request type, or
\* one of its two errors. (kind "io": the read itself failed.)
Requests ==
    {Cmd("EHLO", "host"), Cmd("STARTTLS", ""), Cmd("REGISTER", "cred"), Cmd("DATA", ""),
     Cmd("QUIT", ""), Cmd("HELP", ""), Cmd("NOOP", ""), Cmd("RSET", "")}
        \cup {Cmd("AUTH_PLAIN", a) : a \in AuthArgs}
        \cup {Cmd(t, a) : t \in {"MAIL_FROM", "RCPT_TO"}, a \in Addrs}

ParseErrors ==
    {[kind |-> "perr", t |-> "", arg |-> "Could not parse the SMTP command"],
     [kind |-> "perr", t |-> "", arg |-> "Could not parse the argument for the command: MAIL FROM"]}

ReadError == [kind |-> "io", t |-> "", arg |-> ""]

NoRequest == [kind |-> "none", t |-> "", arg |-> ""]

LooseTypes == {"EHLO", "QUIT", "HELP", "NOOP", "RSET"}

\* The commands of a mail transaction.
MailCommands == {"MAIL_FROM", "RCPT_TO", "DATA"}

\* What stream.read() returns while the body is collected: a line (one or
\* more chunks, the last ending with CR LF), or an error.
DataLines ==
    {<<"a", "CR", "LF">>, <<".", "CR", "LF">>, <<"a", "a", "CR", "LF">>,
     <<"CR", "LF", ".", "CR", "LF">>, <<"a", "CR", "LF", ".", "CR", "LF">>,
     <<"a", "a", "CR", "LF", ".", "CR", "LF">>}

DataReads == {[ok |-> TRUE, line |-> l] : l \in DataLines} \cup {[ok |-> FALSE, line |-> <<>>]}

DataEnd == <<"CR", "LF", ".", "CR", "LF">>

\* SessionData::default().
SessionData_default == [logged_user |-> "", mail_from |-> "", rcpt_to |-> <<>>, data |-> <<>>]

\* A mutant of Reply: the error of a failed write is dropped.
Reply_ignore_error(s, text, wr) ==
    IF AsyncStream_write(s.m_stream, s.peer, wr) = "Ok"
    THEN [s EXCEPT !.out = Append(@, text)]
    ELSE s

\* connection.write(text).await? in the session s; wr: the inner stream's
\* write succeeds. A failed write is returned by `?` through the handler
\* and through run().
Reply(s, text, wr) ==
    IF AsyncStream_write(s.m_stream, s.peer, wr) = "Ok"
    THEN [s EXCEPT !.out = Append(@, text)]
    ELSE [s EXCEPT !.pc = "err_io"]

\* PgMailDB::login: a connection, the user found, the password verified.
PgMailDB_login(s, user, pass, dbok) ==
    s.db_connection.conn /\ dbok /\ user \in DOMAIN Registered /\ Registered[user] = pass

\* PgMailDB::insert_multiple_emails succeeds: logged in, connected, every
\* receiver found, no query error; all in one transaction.
PgMailDB_insert_ok(s, receivers, dbok) ==
    /\ s.db_connection.user_id # ""
    /\ s.db_connection.conn
    /\ dbok
    /\ \A i \in DOMAIN receivers : receivers[i] \in DOMAIN Registered

\* A mutant of handle_if_loose_ehlo: the session data is kept.
handle_if_loose_ehlo_keeps(s, wr) == Reply([s EXCEPT !.current_state = "Ehlo"], "250 OK", wr)

\* handle_if_loose, EHLO arm.
handle_if_loose_ehlo(s, wr) ==
    Reply([s EXCEPT !.current_state = "Ehlo", !.connection_data = SessionData_default],
          "250 OK", wr)

\* A mutant of handle_if_loose_quit: the connection is not taken.
handle_if_loose_quit_keeps(s, wr) == Reply([s EXCEPT !.current_state = "Quit"], "221 OK", wr)

\* A mutant of handle_if_loose_quit: the error of a failed write of 221 OK is
\* dropped and the handler returns Ok with the connection in place.
handle_if_loose_quit_unchecked(s, wr) ==
    IF AsyncStream_write(s.m_stream, s.peer, wr) = "Ok"
    THEN [s EXCEPT !.current_state = "Quit",
                   !.out = Append(@, "221 OK"),
                   !.connection = "None",
                   !.m_stream = AsyncStream_close(s.m_stream),
                   !.db_connection.conn = FALSE]
    ELSE [s EXCEPT !.current_state = "Quit"]

\* handle_if_loose, QUIT arm: the state, the reply, then connection.take()
\* (which drops the AsyncStream) and the store's disconnect().
handle_if_loose_quit(s, wr) ==
    LET s1 == Reply([s EXCEPT !.current_state = "Quit"], "221 OK", wr)
    IN IF s1.pc = "err_io" THEN s1
       ELSE [s1 EXCEPT !.connection = "None",
                       !.m_stream = AsyncStream_close(s1.m_stream),
                       !.db_connection.conn = FALSE]

\* A mutant of handle_if_loose_noop: NOOP resets the session data.
handle_if_loose_noop_resets(s, wr) ==
    Reply([s EXCEPT !.connection_data = SessionData_default], "250 OK", wr)

\* handle_if_loose, HELP arm.
handle_if_loose_help(s, wr) == Reply(s, "214 OK", wr)

\* handle_if_loose, NOOP arm.
handle_if_loose_noop(s, wr) == Reply(s, "250 OK", wr)

\* A mutant of handle_if_loose_rset: a session that has authenticated goes
\* back to Auth, not to Connected.
handle_if_loose_rset_to_auth(s, wr) ==
    Reply([s EXCEPT !.current_state =
                        IF @ \in {"Auth", "MailFrom", "RcptTo", "Data"} THEN "Auth" ELSE "Connected",
                    !.connection_data = SessionData_default],
          "250 OK", wr)

\* A mutant of handle_if_loose_rset: the session data is kept.
handle_if_loose_rset_keeps(s, wr) == Reply([s EXCEPT !.current_state = "Connected"], "250 OK", wr)

\* handle_if_loose, RSET arm.
handle_if_loose_rset(s, wr) ==
    Reply([s EXCEPT !.current_state = "Connected", !.connection_data = SessionData_default],
          "250 OK", wr)

\* ClientSession::handle_if_loose, for a request of a loose type.
handle_if_loose(s, req, wr) ==
    CASE req.t = "EHLO" -> handle_if_loose_ehlo(s, wr)
      [] req.t = "QUIT" -> handle_if_loose_quit(s, wr)
      [] req.t = "HELP" -> handle_if_loose_help(s, wr)
      [] req.t = "NOOP" -> handle_if_loose_noop(s, wr)
      [] OTHER -> handle_if_loose_rset(s, wr)

\* A mutant of handle_following_connected: the command moves the session on.
handle_following_connected_moves(s, req, wr) ==
    Reply([s EXCEPT !.current_state = "Ehlo"], "500 Error", wr)

handle_following_connected(s, req, wr) == Reply(s, "500 Error", wr)

\* A mutant of handle_following_ehlo: the stream is not upgraded.
handle_following_ehlo_no_upgrade(s, req, wr, hs) ==
    IF req.t = "STARTTLS"
    THEN Reply([s EXCEPT !.current_state = "StartTLS"], "220 Ready to start TLS", wr)
    ELSE Reply(s, "500 Error", wr)

\* hs: the TLS handshake succeeds.
\* A mutant of handle_following_ehlo: AUTH PLAIN is accepted in state Ehlo,
\* before any STARTTLS.
handle_following_ehlo_auth(s, req, wr, hs) ==
    IF req.t = "AUTH_PLAIN"
    THEN Reply([s EXCEPT !.current_state = "Auth"], "235 OK", wr)
    ELSE IF req.t = "STARTTLS"
    THEN LET s1 == Reply(s, "220 Ready to start TLS", wr)
         IN IF s1.pc = "err_io" THEN s1
            ELSE LET r == AsyncStream_accept_tls(s1.m_stream, s1.peer, hs)
                 IN [s1 EXCEPT !.current_state = "StartTLS",
                               !.m_stream = r.m_stream,
                               !.pc = IF r.res = "Ok" THEN @ ELSE "err_tls"]
    ELSE Reply(s, "500 Error", wr)

handle_following_ehlo(s, req, wr, hs) ==
    IF req.t = "STARTTLS"
    THEN LET s1 == Reply(s, "220 Ready to start TLS", wr)
         IN IF s1.pc = "err_io" THEN s1
            ELSE LET r == AsyncStream_accept_tls(s1.m_stream, s1.peer, hs)
                 IN [s1 EXCEPT !.current_state = "StartTLS",
                               !.m_stream = r.m_stream,
                               !.pc = IF r.res = "Ok" THEN @ ELSE "err_tls"]
    ELSE Reply(s, "500 Error", wr)

handle_following_starttls(s, req, wr, dbok) ==
    CASE req.t = "AUTH_PLAIN" ->
            LET d == base64_decode(req.arg)
            IN CASE d.kind = "Panic" -> [s EXCEPT !.pc = "panic"]
                 [] d.kind = "Err" ->
                        LET s1 == Reply(s, "500 Error could not decode credentials", wr)
                        IN IF s1.pc = "err_io" THEN s1 ELSE [s1 EXCEPT !.current_state = "Auth"]
                 [] OTHER ->
                        \* cred[1], cred[2]: indexing past the end panics
                        IF Len(d.parts) < 3 THEN [s EXCEPT !.pc = "panic"]
                        ELSE IF PgMailDB_login(s, d.parts[2], d.parts[3], dbok)
                        THEN Reply([s EXCEPT !.db_connection.user_id = d.parts[2],
                                             !.current_state = "Auth",
                                             !.connection_data.logged_user = d.parts[2]],
                                   "235 OK", wr)
                        ELSE LET s1 == Reply(s, "500 Error user not found", wr)
                             IN IF s1.pc = "err_io" THEN s1
                                ELSE [s1 EXCEPT !.current_state = "Auth"]
      [] req.t = "REGISTER" -> Reply([s EXCEPT !.current_state = "Auth"], "235 OK", wr)
      [] OTHER -> Reply(s, "500 Error", wr)

handle_following_auth(s, req, wr) ==
    IF req.t = "MAIL_FROM"
    THEN Reply([s EXCEPT !.current_state = "MailFrom"], "250 OK", wr)
    ELSE Reply(s, "500 Error", wr)

handle_following_mail_from(s, req, wr) ==
    IF req.t = "RCPT_TO"
    THEN Reply([s EXCEPT !.connection_data.rcpt_to = Append(@, req.arg),
                         !.current_state = "RcptTo"], "250 OK", wr)
    ELSE Reply(s, "500 Error", wr)

\* For DATA this is the handler up to its call of read_data_until_dot.
handle_following_rcpt_to(s, req, wr) ==
    CASE req.t = "RCPT_TO" ->
            Reply([s EXCEPT !.connection_data.rcpt_to = Append(@, req.arg),
                            !.current_state = "RcptTo"], "250 OK", wr)
      [] req.t = "DATA" ->
            LET s1 == Reply(s, "354 End data with <CR><LF>.<CR><LF>", wr)
            IN IF s1.pc = "err_io" THEN s1 ELSE [s1 EXCEPT !.pc = "data", !.data = <<>>]
      [] OTHER -> Reply(s, "500 Error", wr)

\* A mutant of handle_following_data: the address is pushed onto the
\* session data of the transaction before, which is not reset.
handle_following_data_keeps(s, req, wr) ==
    IF req.t = "MAIL_FROM"
    THEN Reply([s EXCEPT !.current_state = "MailFrom",
                         !.connection_data.rcpt_to = Append(@, req.arg)],
               "250 OK", wr)
    ELSE Reply(s, "500 Error", wr)

handle_following_data(s, req, wr) ==
    IF req.t = "MAIL_FROM"
    THEN Reply([s EXCEPT !.current_state = "MailFrom",
                         !.connection_data = [SessionData_default EXCEPT !.rcpt_to = <<req.arg>>]],
               "250 OK", wr)
    ELSE Reply(s, "500 Error", wr)

\* unreachable!("Should not accept any commands after QUIT")
handle_following_quit(s, req) == [s EXCEPT !.pc = "panic"]

\* A mutant of handle_parse_error: the session is reset as well.
handle_parse_error_resets(s, rd, wr) ==
    Reply([s EXCEPT !.current_state = "Connected", !.connection_data = SessionData_default],
          "500 Error " \o rd.arg, wr)

\* handle_new_request, Err arm of the match on the parse: the error's text
\* goes into the reply.
handle_parse_error(s, rd, wr) == Reply(s, "500 Error " \o rd.arg, wr)

\* ClientSession::handle_new_request after the read returned rd.
handle_new_request(s, rd, wr, hs, dbok) ==
    CASE rd.kind = "io" -> [s EXCEPT !.pc = "err_io"]
      [] rd.kind = "perr" -> handle_parse_error(s, rd, wr)
      [] OTHER ->
            IF rd.t \in LooseTypes THEN handle_if_loose(s, rd, wr)
            ELSE CASE s.current_state = "Connected" -> handle_following_connected(s, rd, wr)
                   [] s.current_state = "Ehlo" -> handle_following_ehlo(s, rd, wr, hs)
                   [] s.current_state = "StartTLS" -> handle_following_starttls(s, rd, wr, dbok)
                   [] s.current_state = "Auth" -> handle_following_auth(s, rd, wr)
                   [] s.current_state = "MailFrom" -> handle_following_mail_from(s, rd, wr)
                   [] s.current_state = "RcptTo" -> handle_following_rcpt_to(s, rd, wr)
                   [] s.current_state = "Data" -> handle_following_data(s, rd, wr)
                   [] OTHER -> handle_following_quit(s, rd)

\* One iteration of read_data_until_dot's loop with acc accumulated so far
\* and rd what stream.read() returned: a line ending with CR LF . CR LF ends
\* the loop with Ok (its last five bytes dropped, its size not checked); any
\* other line is appended, an error is skipped, and the size is then checked.
read_data_until_dot(acc, rd) ==
    IF rd.ok /\ ends_with(rd.line, DataEnd)
    THEN [data |-> acc \o SubSeq(rd.line, 1, Len(rd.line) - 5), done |-> "Ok"]
    ELSE LET d == IF rd.ok THEN acc \o rd.line ELSE acc
         IN IF Len(d) > MAX_SIZE THEN [data |-> d, done |-> "Err"]
                                 ELSE [data |-> d, done |-> "loop"]

\* handle_following_rcpt_to, DATA arm, from a read inside read_data_until_dot
\* on: the loop goes on, or it returned and the match on its result runs:
\* Ok stores the body, moves to Data, writes 250 OK and only then calls
\* insert_multiple_emails, whose error is returned by `?`; Err writes the
\* 500 reply and leaves the state alone.
handle_following_rcpt_to_data(s, rd, wr, dbok) ==
    LET it == read_data_until_dot(s.data, rd)
    IN CASE it.done = "loop" -> [s EXCEPT !.data = it.data]
         [] it.done = "Ok" ->
                LET s1 == Reply([s EXCEPT !.data = <<>>,
                                          !.pc = "loop",
                                          !.connection_data.data = it.data,
                                          !.current_state = "Data"], "250 OK", wr)
                IN IF s1.pc = "err_io" THEN s1
                   ELSE IF PgMailDB_insert_ok(s1, s1.connection_data.rcpt_to, dbok)
                        THEN [s1 EXCEPT !.ins = "ok"]
                        ELSE [s1 EXCEPT !.ins = "err", !.pc = "err_db", !.dfail = TRUE]
         [] OTHER ->
                Reply([s EXCEPT !.data = <<>>, !.pc = "loop", !.dfail = TRUE],
                      "500 Error\r\nData size is too big", wr)

\* The session as a record, for the handlers above.
Session ==
    [pc |-> spc, current_state |-> current_state, connection |-> connection,
     connection_data |-> connection_data, db_connection |-> db_connection,
     m_stream |-> m_stream, peer |-> peer, data |-> data, out |-> out,
     ins |-> ins, dfail |-> dfail]

\* The session after a step is the record s.
Install(s) ==
    /\ spc' = s.pc
    /\ current_state' = s.current_state
    /\ connection' = s.connection
    /\ connection_data' = s.connection_data
    /\ db_connection' = s.db_connection
    /\ m_stream' = s.m_stream
    /\ ever_enc' = (ever_enc \/ s.m_stream = "Encrypted")
    /\ data' = s.data
    /\ out' = s.out
    /\ ins' = s.ins
    /\ dfail' = s.dfail
    /\ UNCHANGED peer

\* ClientSession::new: state Connected, the store connected, nobody logged in.
SsInit ==
    /\ spc = "new"
    /\ current_state = "Connected"
    /\ connection = "Some"
    /\ connection_data = SessionData_default
    /\ db_connection = [conn |-> TRUE, user_id |-> ""]
    /\ data = <<>>
    /\ out = <<>>
    /\ lastreq = NoRequest
    /\ ins = "none"
    /\ dfail = FALSE
    /\ iter = 0
    /\ rset_clean = FALSE

\* A mutant of Session_run: the loop is entered with nothing written.
Session_run_silent(wr) ==
    /\ UNCHANGED not_ss_vars
    /\ spc = "new"
    /\ Install([Session EXCEPT !.pc = "loop"])
    /\ UNCHANGED <<lastreq, iter, rset_clean>>

\* ClientSession::run, up to its loop: the greeting.
Session_run(wr) ==
    /\ UNCHANGED not_ss_vars
    /\ spc = "new"
    /\ Install(Reply([Session EXCEPT !.pc = "loop"], "220 SMTP server ready", wr))
    /\ UNCHANGED <<lastreq, iter, rset_clean>>

\* ClientSession::run, its loop's exits: the connection was taken (QUIT), or
\* is_open() is false.
Session_run_exit ==
    /\ UNCHANGED not_ss_vars
    /\ spc = "loop"
    /\ connection = "None" \/ ~AsyncStream_is_open(m_stream, peer)
    /\ Install([Session EXCEPT !.pc = "ok"])
    /\ UNCHANGED <<lastreq, iter, rset_clean>>

\* ClientSession::run, one iteration of its loop: handle_new_request, with
\* rd what the read and the parse gave, wr whether writes succeed, hs whether
\* a TLS handshake does, dbok whether the store's queries do.
Session_handle_new_request(rd, wr, hs, dbok) ==
    /\ UNCHANGED not_ss_vars
    /\ spc = "loop"
    /\ connection = "Some"
    /\ AsyncStream_is_open(m_stream, peer)
    /\ (rd.t = "RCPT_TO" /\ current_state \in {"MailFrom", "RcptTo"})
            => Len(connection_data.rcpt_to) < MaxRcpt
    /\ lastreq' = rd
    /\ iter' = 0
    /\ rset_clean' = (IF rd.t = "RSET" THEN TRUE
                      ELSE IF rd.t \in MailCommands THEN FALSE
                      ELSE rset_clean)
    /\ Install(handle_new_request(
                   [Session EXCEPT !.out = <<>>, !.ins = "none", !.dfail = FALSE],
                   rd, wr, hs, dbok))

\* handle_following_rcpt_to suspended in read_data_until_dot: the next read
\* returns rd. With the socket down every read is an error.
Session_read_data(rd, wr, dbok) ==
    /\ UNCHANGED not_ss_vars
    /\ spc = "data"
    /\ rd.ok => AsyncStream_is_open(m_stream, peer)
    /\ Install(handle_following_rcpt_to_data(Session, rd, wr, dbok))
    /\ iter' = (IF spc' = "data" THEN 1 - iter ELSE 0)
    /\ UNCHANGED <<lastreq, rset_clean>>

\* The steps of the session's task.
SessionStep ==
    \/ \E wr \in BOOLEAN : Session_run(wr)
    \/ Session_run_exit
    \/ \E rd \in Requests \cup ParseErrors \cup {ReadError}, wr \in BOOLEAN,
          hs \in BOOLEAN, dbok \in BOOLEAN :
            Session_handle_new_request(rd, wr, hs, dbok)
    \/ \E rd \in DataReads, wr \in BOOLEAN, dbok \in BOOLEAN : Session_read_data(rd, wr, dbok)

SsNext ==
    \/ Peer_down
    \/ SessionStep

\* ----------------------------------------------------------- mail_database

\* The largest number of rows of mailBodies the model lets the database hold.
MaxBodies == 2

\* The passwords the model tells apart.
Passes == {"pw", "bad"}

\* The receiver lists handed to insert_multiple_emails: up to MaxRcpt names.
Receivers == UNION {[1..n -> Addrs] : n \in 0..MaxRcpt}

\* PgMailDB::new: no connection, no user, host_id 0.
PgMailDB_new == [conn |-> FALSE, host_id |-> 0, user_id |-> ""]

\* users.filter(user_name.eq(name)).filter(host_id.eq(self.host_id)): the
\* rows of users the lookups of sign_up, login and insert_multiple_emails see.
users_filter(t, h, name) == {u \in t.users : u.name = name /\ u.host = h.host_id}

\* PgMailDB::connect; est: PgConnection::establish succeeds, host:
\* ensure_host_id does. The connection is stored before ensure_host_id is
\* called, and stays stored when that fails.
PgMailDB_connect(h, est, host) ==
    IF ~est THEN [pg |-> h, res |-> "ConnectionError"]
    ELSE IF ~host THEN [pg |-> [h EXCEPT !.conn = TRUE], res |-> "QueryError"]
    ELSE [pg |-> [h EXCEPT !.conn = TRUE, !.host_id = 1], res |-> "Ok"]

\* PgMailDB::disconnect: only conn is emptied.
PgMailDB_disconnect(h) == [h EXCEPT !.conn = FALSE]

\* PgMailDB::is_connected; q: the queries of this call succeed.
PgMailDB_is_connected(h, q) == h.conn /\ q

\* PgMailDB::sign_up. A failed lookup counts as "no such user" (.ok()), and
\* the insert that follows fails with it.
PgMailDB_sign_up(h, t, name, pass, q) ==
    IF ~h.conn THEN [tables |-> t, res |-> "NoConnection"]
    ELSE IF q /\ users_filter(t, h, name) # {} THEN [tables |-> t, res |-> "UserAlreadyExist"]
    ELSE IF ~q THEN [tables |-> t, res |-> "QueryError"]
    ELSE [tables |-> [t EXCEPT !.users = @ \cup {[host |-> h.host_id, name |-> name, pass |-> pass]}],
          res |-> "Ok"]

\* PgMailDB::login: the new handle and the result.
PgMailDB_login_user(h, t, name, pass, q) ==
    IF ~h.conn THEN [pg |-> h, res |-> "NoConnection"]
    ELSE IF ~q \/ users_filter(t, h, name) = {} THEN [pg |-> h, res |-> "UserNotFound"]
    ELSE IF (CHOOSE u \in users_filter(t, h, name) : TRUE).pass = pass
         THEN [pg |-> [h EXCEPT !.user_id = name], res |-> "Ok"]
         ELSE [pg |-> h, res |-> "UserAuthError"]

\* A mutant of Transaction_rollback: the rows inserted before the failure stay.
Transaction_rollback_keeps(rows) == rows

\* diesel's transaction on an Err of its closure: ROLLBACK, none of the rows
\* the closure inserted stays.
Transaction_rollback(rows) == [mailBodies |-> 0, emailMessages |-> 0]

\* The closure of insert_multiple_emails' transaction: its queries are, in
\* order, one lookup for each receiver, the insert of the body row, one
\* insert of a message row for each receiver id. fail is the number of the
\* query that fails (0: none); a lookup that finds no row fails too. The
\* result and the rows that stay.
insert_multiple_emails_transaction(h, t, receivers, fail) ==
    LET N == Len(receivers)
        missing == {i \in 1..N : users_filter(t, h, receivers[i]) = {}}
        bad == missing \cup (IF fail \in 1..(2 * N + 1) THEN {fail} ELSE {})
        first == CHOOSE i \in bad : \A j \in bad : i <= j
    IN IF bad = {}
       THEN [res |-> "Ok", rows |-> [mailBodies |-> 1, emailMessages |-> N]]
       ELSE [res |-> "QueryError",
             rows |-> Transaction_rollback(
                         [mailBodies |-> IF first > N + 1 THEN 1 ELSE 0,
                          emailMessages |-> IF first > N + 1 THEN first - N - 2 ELSE 0])]

\* PgMailDB::insert_multiple_emails: the result and the rows added.
PgMailDB_insert_multiple_emails(h, t, receivers, fail) ==
    IF h.user_id = ""
    THEN [res |-> "UserNotLoggedIn", rows |-> [mailBodies |-> 0, emailMessages |-> 0]]
    ELSE IF ~h.conn
    THEN [res |-> "NoConnection", rows |-> [mailBodies |-> 0, emailMessages |-> 0]]
    ELSE insert_multiple_emails_transaction(h, t, receivers, fail)

\* The database with the rows of an insert added.
add_rows(t, rows) ==
    [t EXCEPT !.mailBodies = @ + rows.mailBodies, !.emailMessages = @ + rows.emailMessages]

\* The record dbres keeps of a call that returned; arg: its receivers, io:
\* the database answered every query of the call.
Called(op, res, arg, io) ==
    [op |-> op, res |-> res, arg |-> arg, io |-> io, pre |-> tables, pre_pg |-> pg,
     pre_disc |-> disc]

DbInit ==
    /\ pg = PgMailDB_new
    /\ tables = [users |-> {}, mailBodies |-> 0, emailMessages |-> 0]
    /\ dbres = [op |-> "new", res |-> "Ok", arg |-> <<>>, io |-> TRUE, pre |-> tables, pre_pg |-> pg,
                pre_disc |-> FALSE]
    /\ disc = FALSE

Store_connect(est, host) ==
    /\ UNCHANGED not_db_vars
    /\ LET r == PgMailDB_connect(pg, est, host)
       IN /\ pg' = r.pg
          /\ dbres' = Called("connect", r.res, <<>>, est /\ host)
          /\ disc' = (disc /\ r.res # "Ok")
    /\ UNCHANGED tables

Store_disconnect ==
    /\ UNCHANGED not_db_vars
    /\ pg' = PgMailDB_disconnect(pg)
    /\ dbres' = Called("disconnect", "Ok", <<>>, TRUE)
    /\ disc' = TRUE
    /\ UNCHANGED tables

Store_is_connected(q) ==
    /\ UNCHANGED not_db_vars
    /\ dbres' = Called("is_connected", IF PgMailDB_is_connected(pg, q) THEN "true" ELSE "false",
                     <<>>, q)
    /\ UNCHANGED <<pg, tables, disc>>

Store_sign_up(name, pass, q) ==
    /\ UNCHANGED not_db_vars
    /\ LET r == PgMailDB_sign_up(pg, tables, name, pass, q)
       IN /\ tables' = r.tables
          /\ dbres' = Called("sign_up", r.res, <<name>>, q)
    /\ UNCHANGED <<pg, disc>>

Store_login(name, pass, q) ==
    /\ UNCHANGED not_db_vars
    /\ LET r == PgMailDB_login_user(pg, tables, name, pass, q)
       IN /\ pg' = r.pg
          /\ dbres' = Called("login", r.res, <<name>>, q)
    /\ UNCHANGED <<tables, disc>>

Store_insert_multiple_emails(receivers, fail) ==
    /\ UNCHANGED not_db_vars
    /\ tables.mailBodies < MaxBodies
    /\ LET r == PgMailDB_insert_multiple_emails(pg, tables, receivers, fail)
       IN /\ tables' = add_rows(tables, r.rows)
          /\ dbres' = Called("insert_multiple_emails", r.res, receivers,
                           fail \notin 1..(2 * Len(receivers) + 1))
    /\ UNCHANGED <<pg, disc>>

\* The calls made on the handle. Users sign up with the password pw; a
\* login gives it or a wrong one.
DbNext ==
    \/ \E est \in BOOLEAN, host \in BOOLEAN : Store_connect(est, host)
    \/ Store_disconnect
    \/ \E q \in BOOLEAN : Store_is_connected(q)
    \/ \E name \in Addrs, q \in BOOLEAN : Store_sign_up(name, "pw", q)
    \/ \E name \in Addrs, pass \in Passes, q \in BOOLEAN : Store_login(name, pass, q)
    \/ \E receivers \in Receivers : \E fail \in 0..(2 * Len(receivers) + 1) :
          Store_insert_multiple_emails(receivers, fail)

\* ------------------------------------------ two sessions on one database

\* The sessions that run at the same time.
Clients == {1, 2}

\* The body each client submits, with its terminator: "a\r\n.\r\n".
Mail == <<"a", "CR", "LF", ".", "CR", "LF">>

RECURSIVE concat(_)
concat(ls) == IF ls = <<>> THEN <<>> ELSE Head(ls) \o concat(Tail(ls))

\* The ways the mail can reach read_data_until_dot: as one line read, or as
\* several, each ending with CR LF.
Divisions == {d \in UNION {[1..n -> DataLines] : n \in 1..2} : concat(d) = Mail}

\* A line of the body as the client sends it.
Send_data(l) == [kind |-> "data", t |-> "", arg |-> l]

\* What a client sends to submit the mail to n recipients, the body
\* divided as d: it waits for the reply to the body before its QUIT.
Submission(n, d) ==
    <<Cmd("EHLO", "host"), Cmd("STARTTLS", ""), Cmd("AUTH_PLAIN", "AHUxAHB3"),
      Cmd("MAIL_FROM", "u1")>>
        \o [i \in 1..n |-> Cmd("RCPT_TO", "u1")]
        \o <<Cmd("DATA", "")>>
        \o [i \in 1..Len(d) |-> Send_data(d[i])]
        \o <<Cmd("QUIT", "")>>

\* ClientSession::new with a stream just accepted.
ClientSession_new ==
    [pc |-> "new", current_state |-> "Connected", connection |-> "Some",
     connection_data |-> SessionData_default,
     db_connection |-> [conn |-> TRUE, user_id |-> ""],
     m_stream |-> "Plain", peer |-> "up", data |-> <<>>, out |-> <<>>,
     ins |-> "none", dfail |-> FALSE]

\* The rows of users for the registered users, under the host of the sessions.
RegisteredRows == {[host |-> 1, name |-> u, pass |-> Registered[u]] : u \in DOMAIN Registered}

\* The PgMailDB of the session s as the store operations take it.
handle_of(s) == [conn |-> s.db_connection.conn, host_id |-> 1, user_id |-> s.db_connection.user_id]

\* The database after the handler that left the session as s: when it
\* called insert_multiple_emails and that returned Ok, with the rows of
\* that transaction committed.
stored(t, s) ==
    IF s.ins = "ok"
    THEN add_rows(t, PgMailDB_insert_multiple_emails(handle_of(s), t, s.connection_data.rcpt_to, 0).rows)
    ELSE t

\* No session running.
CcInit ==
    /\ sess = [i \in Clients |-> ClientSession_new]
    /\ tosend = [i \in Clients |-> <<>>]

\* Session i's run(), up to its loop.
Duo_run(i) ==
    /\ UNCHANGED not_cc_vars
    /\ sess[i].pc = "new"
    /\ sess' = [sess EXCEPT ![i] = Reply([@ EXCEPT !.pc = "loop"], "220 SMTP server ready", TRUE)]
    /\ UNCHANGED <<tosend, tables>>

\* Session i's run() returns: its connection was taken by QUIT.
Duo_run_exit(i) ==
    /\ UNCHANGED not_cc_vars
    /\ sess[i].pc = "loop"
    /\ sess[i].connection = "None" \/ ~AsyncStream_is_open(sess[i].m_stream, sess[i].peer)
    /\ sess' = [sess EXCEPT ![i].pc = "ok"]
    /\ UNCHANGED <<tosend, tables>>

\* Session i reads the next command line of its client and handles it.
Duo_handle_new_request(i) ==
    /\ UNCHANGED not_cc_vars
    /\ sess[i].pc = "loop"
    /\ sess[i].connection = "Some"
    /\ AsyncStream_is_open(sess[i].m_stream, sess[i].peer)
    /\ tosend[i] # <<>>
    /\ Head(tosend[i]).kind = "cmd"
    /\ Head(tosend[i]).t = "QUIT" => sess[i].current_state = "Data"
    /\ sess' = [sess EXCEPT ![i] =
                    handle_new_request([@ EXCEPT !.out = <<>>, !.ins = "none", !.dfail = FALSE],
                                       Head(tosend[i]), TRUE, TRUE, TRUE)]
    /\ tosend' = [tosend EXCEPT ![i] = Tail(@)]
    /\ UNCHANGED tables

\* Session i, in read_data_until_dot, reads the next line of the body; when
\* that ends the collection the handler goes on to its insert.
Duo_read_data(i) ==
    /\ UNCHANGED not_cc_vars
    /\ sess[i].pc = "data"
    /\ tosend[i] # <<>>
    /\ Head(tosend[i]).kind = "data"
    /\ sess' = [sess EXCEPT ![i] =
                    handle_following_rcpt_to_data(@, [ok |-> TRUE, line |-> Head(tosend[i]).arg],
                                                  TRUE, TRUE)]
    /\ tosend' = [tosend EXCEPT ![i] = Tail(@)]
    /\ tables' = stored(tables, sess'[i])

DuoStep(i) ==
    \/ Duo_run(i)
    \/ Duo_run_exit(i)
    \/ Duo_handle_new_request(i)
    \/ Duo_read_data(i)

DuoNext == \E i \in Clients : DuoStep(i)

\* ---------------------------------------------------------- request_parser

\* The largest number of characters that follow the command token in a line.
MaxArg == 3

\* The command tokens (module commands of the crate), as their characters.
commands ==
    [EHLO |-> <<"E", "H", "L", "O">>,
     HELO |-> <<"H", "E", "L", "O">>,
     STARTTLS |-> <<"S", "T", "A", "R", "T", "T", "L", "S">>,
     AUTH_PLAIN |-> <<"A", "U", "T", "H", " ", "P", "L", "A", "I", "N">>,
     REGISTER |-> <<"R", "E", "G", "I", "S", "T", "E", "R">>,
     MAIL_FROM |-> <<"M", "A", "I", "L", " ", "F", "R", "O", "M">>,
     RCPT_TO |-> <<"R", "C", "P", "T", " ", "T", "O">>,
     DATA |-> <<"D", "A", "T", "A">>,
     QUIT |-> <<"Q", "U", "I", "T">>,
     HELP |-> <<"H", "E", "L", "P">>,
     NOOP |-> <<"N", "O", "O", "P">>,
     RSET |-> <<"R", "S", "E", "T">>]

Tokens == {commands[c] : c \in DOMAIN commands}

\* The characters that follow the token in the lines tried: a space, the
\* punctuation of an address, any other character.
ArgChars == {" ", ":", "<", ">", "a"}

\* The lines tried: a token, or the start of no command, or nothing, with
\* up to MaxArg characters after it and possibly a space before it.
Lines ==
    {pre \o tok \o suf :
        pre \in {<<>>, <<" ">>},
        tok \in Tokens \cup {<<"R", "C", "V">>, <<>>},
        suf \in UNION {[1..n -> ArgChars] : n \in 0..MaxArg}}

\* str::starts_with.
starts_with(str, prefix) ==
    /\ Len(str) >= Len(prefix)
    /\ SubSeq(str, 1, Len(prefix)) = prefix

RECURSIVE trim_start(_)
trim_start(str) ==
    IF str # <<>> /\ Head(str) = " " THEN trim_start(Tail(str)) ELSE str

RECURSIVE trim_end(_)
trim_end(str) ==
    IF str # <<>> /\ str[Len(str)] = " " THEN trim_end(SubSeq(str, 1, Len(str) - 1)) ELSE str

\* str::get(from..to), indices counted from 0: None unless from <= to <= len.
str_get(str, from, to) ==
    IF from <= to /\ to <= Len(str)
    THEN [some |-> TRUE, str |-> SubSeq(str, from + 1, to)]
    ELSE [some |-> FALSE, str |-> <<>>]

\* A request with its argument as characters.
Req(t, arg) == [kind |-> "cmd", t |-> t, arg |-> arg]

\* A mutant of RequestType_fmt: AUTH_PLAIN is written as AUTH.
RequestType_fmt_short(r) ==
    CASE r.t = "EHLO" -> commands.EHLO
      [] r.t = "STARTTLS" -> commands.STARTTLS
      [] r.t = "AUTH_PLAIN" -> SubSeq(commands.AUTH_PLAIN, 1, 4)
      [] r.t = "REGISTER" -> commands.REGISTER
      [] r.t = "MAIL_FROM" -> commands.MAIL_FROM
      [] r.t = "RCPT_TO" -> commands.RCPT_TO
      [] r.t = "DATA" -> commands.DATA
      [] r.t = "QUIT" -> commands.QUIT
      [] r.t = "HELP" -> commands.HELP
      [] r.t = "NOOP" -> commands.NOOP
      [] OTHER -> commands.RSET

\* Display for RequestType: the token of the variant, without its argument.
RequestType_fmt(r) ==
    CASE r.t = "EHLO" -> commands.EHLO
      [] r.t = "STARTTLS" -> commands.STARTTLS
      [] r.t = "AUTH_PLAIN" -> commands.AUTH_PLAIN
      [] r.t = "REGISTER" -> commands.REGISTER
      [] r.t = "MAIL_FROM" -> commands.MAIL_FROM
      [] r.t = "RCPT_TO" -> commands.RCPT_TO
      [] r.t = "DATA" -> commands.DATA
      [] r.t = "QUIT" -> commands.QUIT
      [] r.t = "HELP" -> commands.HELP
      [] r.t = "NOOP" -> commands.NOOP
      [] OTHER -> commands.RSET

\* RequestType::argument_parsing_error.
argument_parsing_error(command) ==
    [kind |-> "perr", t |-> "",
     arg |-> <<"Could not parse the argument for the command: ">> \o command]

\* RequestType::parse_command_with_arg with the slice from..to of the request.
parse_command_with_arg(cmd_type, raw_request, from, to) ==
    LET argument == str_get(raw_request, from, to)
    IN IF argument.some
       THEN Req(cmd_type, argument.str)
       ELSE argument_parsing_error(RequestType_fmt(Req(cmd_type, <<>>)))

\* RequestType::parse.
RequestType_parse(raw) ==
    LET raw_request == trim_end(trim_start(raw))
        n == Len(raw_request)
    IN IF starts_with(raw_request, commands.EHLO) \/ starts_with(raw_request, commands.HELO)
       THEN parse_command_with_arg("EHLO", raw_request, Len(commands.EHLO) + 1, n)
       ELSE IF starts_with(raw_request, commands.STARTTLS) THEN Req("STARTTLS", <<>>)
       ELSE IF starts_with(raw_request, commands.AUTH_PLAIN)
       THEN parse_command_with_arg("AUTH_PLAIN", raw_request, Len(commands.AUTH_PLAIN) + 1, n)
       ELSE IF starts_with(raw_request, commands.REGISTER)
       THEN parse_command_with_arg("REGISTER", raw_request, Len(commands.REGISTER) + 1, n)
       ELSE IF starts_with(raw_request, commands.MAIL_FROM)
       THEN parse_command_with_arg("MAIL_FROM", raw_request, Len(commands.MAIL_FROM) + 3, n - 1)
       ELSE IF starts_with(raw_request, commands.RCPT_TO)
       THEN parse_command_with_arg("RCPT_TO", raw_request, Len(commands.RCPT_TO) + 3, n - 1)
       ELSE IF starts_with(raw_request, commands.DATA) THEN Req("DATA", <<>>)
       ELSE IF starts_with(raw_request, commands.QUIT) THEN Req("QUIT", <<>>)
       ELSE IF starts_with(raw_request, commands.HELP) THEN Req("HELP", <<>>)
       ELSE IF starts_with(raw_request, commands.NOOP) THEN Req("NOOP", <<>>)
       ELSE IF starts_with(raw_request, commands.RSET) THEN Req("RSET", <<>>)
       ELSE [kind |-> "perr", t |-> "", arg |-> <<"Could not parse the SMTP command">>]

\* No line parsed.
RpInit ==
    /\ line = <<>>
    /\ parsed = NoRequest
    /\ shown = <<>>

\* RequestType::parse(line).
Parser_parse ==
    /\ UNCHANGED not_rp_vars
    /\ parsed = NoRequest
    /\ parsed' = RequestType_parse(line)
    /\ UNCHANGED <<line, shown>>

\* to_string() of the request parsed.
Parser_fmt ==
    /\ UNCHANGED not_rp_vars
    /\ parsed.kind = "cmd"
    /\ shown = <<>>
    /\ shown' = RequestType_fmt(parsed)
    /\ UNCHANGED <<line, parsed>>

RpNext ==
    \/ Parser_parse
    \/ Parser_fmt

Init == RtInit /\ StInit /\ SsInit /\ DbInit /\ CcInit /\ RpInit

RuntimeSpec == Init /\ [][RtNext]_vars

StreamSpec == Init /\ [][StNext]_vars

SessionSpec == Init /\ [][SsNext]_vars

StoreSpec == Init /\ [][DbNext]_vars

\* Two clients, each about to submit the mail to the same number of
\* recipients, each dividing the body in its own way; the users registered.
DuoInit ==
    /\ RtInit /\ StInit /\ SsInit
    /\ pg = PgMailDB_new
    /\ tables = [users |-> RegisteredRows, mailBodies |-> 0, emailMessages |-> 0]
    /\ dbres = [op |-> "new", res |-> "Ok", arg |-> <<>>, io |-> TRUE, pre |-> tables,
                pre_pg |-> pg, pre_disc |-> FALSE]
    /\ disc = FALSE
    /\ sess = [i \in Clients |-> ClientSession_new]
    /\ \E n \in 1..MaxRcpt, d \in [Clients -> Divisions] :
           tosend = [i \in Clients |-> Submission(n, d[i])]
    /\ RpInit

\* The parser applied to each of the lines tried.
ParserInit ==
    /\ RtInit /\ StInit /\ SsInit /\ DbInit /\ CcInit
    /\ line \in Lines
    /\ parsed = NoRequest
    /\ shown = <<>>

ParserSpec == ParserInit /\ [][RpNext]_vars

\* The two session tasks are each polled again and again by the runtime.
DuoFairSpec == DuoInit /\ [][DuoNext]_vars /\ \A i \in Clients : WF_vars(DuoStep(i))

\* A read in progress is resumed whenever the socket has something for it:
\* bytes, the end of the file, or an error.
StreamFairSpec ==
    Init /\ [][StNext]_vars
         /\ WF_vars(\E chunk \in Chunks, io \in BOOLEAN : Stream_read_chunk(chunk, io))

\* The session's task is polled again and again by a worker, so it takes
\* the step it can take.
SessionFairSpec == Init /\ [][SsNext]_vars /\ WF_vars(SessionStep)

\* The worker threads are operating-system threads and run whenever they can;
\* the owner finishes a stop() or a drop it has begun. Whether the owner ever
\* calls spawn, start, stop or drop is up to it.
RuntimeFairSpec ==
    /\ Init /\ [][RtNext]_vars
    /\ \A w \in Workers : WF_vars(WorkerStep(w))
    /\ WF_vars(ExecutorManager_stop_iter)
    /\ WF_vars(ThreadPool_drop_join)

\* The pool by itself: every worker thread is scheduled, every job returns,
\* and the thread dropping the pool goes on through its joins.
PoolFairSpec ==
    /\ Init /\ [][PoolNext]_vars
    /\ \A w \in Workers : WF_vars(Worker_recv(w)) /\ WF_vars(Worker_job_returns(w))
    /\ WF_vars(ThreadPool_drop_join)

\* ------------------------------------------------- claims on the runtime

InQueueCount(t) == Cardinality({i \in DOMAIN queue : queue[i] = t})
HeldCount(t) == Cardinality({w \in Workers : held[w] = t})
InQueue(t) == InQueueCount(t) > 0
IsHeld(t) == HeldCount(t) > 0
Running == phase = "running"

\* C1 (as amended): every spawned task that has neither returned Ready nor
\* panicked in a poll is in the queue exactly once or held by exactly one
\* worker, which is at its poll, never both and never twice; a task that
\* returned Ready or whose poll panicked is in neither place (so it is never
\* polled again), and so is a task not spawned yet.
C1_TaskOwnedOnce ==
    /\ \A t \in Tasks :
        /\ tstatus[t] = "alive" => InQueueCount(t) + HeldCount(t) = 1
        /\ tstatus[t] # "alive" => InQueueCount(t) + HeldCount(t) = 0
    /\ \A w \in Workers : held[w] # 0 <=> wpc[w] = "poll"

\* C1 witness: two workers are polling two tasks at once, one of them a task
\* that was requeued after Pending, while a third task waits in the queue and
\* a fourth has returned Ready.
C1_Witness ==
    \E t, u, v, x \in Tasks :
        /\ Cardinality({t, u, v, x}) = 4
        /\ IsHeld(t) /\ pended[t]
        /\ IsHeld(u)
        /\ InQueue(v)
        /\ tstatus[x] = "ready"

\* C1 as claimed: every spawned task that has not returned Ready is in the
\* queue exactly once or held by exactly one worker; a task that returned
\* Ready is in neither place.
C1_Original ==
    \A t \in Tasks :
        /\ tstatus[t] \in {"alive", "panicked"} => InQueueCount(t) + HeldCount(t) = 1
        /\ tstatus[t] = "ready" => InQueueCount(t) + HeldCount(t) = 0

\* C2 as claimed: while the runtime is started and not stopped, a task whose
\* poll returned Pending is eventually polled again.
C2_PendingPolledAgain ==
    \A t \in Tasks :
        (Running /\ pended[t] /\ InQueue(t)) ~> (IsHeld(t) \/ ~Running)

\* C3 as claimed: if some task returns Pending on every poll forever, every
\* other task waiting in the queue is still polled, again and again, until
\* it returns Ready (while the runtime is started and not stopped).
C3_NoStarvation ==
    \A t, u \in Tasks :
        (t # u) =>
            ((<>[](tstatus[t] = "alive" /\ pended[t]))
                => [](Running /\ InQueue(u) => <>(IsHeld(u) \/ ~Running)))

\* C4 as claimed: after start(), once stop() has set every executor's flag
\* and the pool is being dropped, the drop eventually completes (every
\* worker has left run, received Terminate and been joined).
C4_ShutdownCompletes ==
    (phase = "joining" /\ nexec = NumWorkers /\ \A e \in Workers : term_flag[e])
        ~> (phase = "dropped")

\* C5 as claimed: a panic raised while a task is being polled does not end
\* the worker thread that polled it: after it the worker is back in its loop.
C5_PanicKeepsWorker ==
    [][\A w \in Workers :
        (wpc[w] = "poll" /\ tstatus'[held[w]] = "panicked") => wpc'[w] = "loop"]_vars

\* -------------------------------------------------- claims on the stream

\* C6: once the inner stream of an AsyncStream has been Encrypted it is never
\* Plain again, and every accept_tls or connect_tls called after that fails;
\* called on an Encrypted stream that is open it fails with
\* StreamAlreadyEncrypted.
C6_EncryptedStays ==
    /\ ever_enc => m_stream # "Plain"
    /\ (sres.op \in {"accept_tls", "connect_tls"} /\ sres.pre_ever) => sres.res # "Ok"
    /\ (sres.op \in {"accept_tls", "connect_tls"} /\ sres.pre = "Encrypted" /\ sres.pre_open)
            => sres.res = "Tls_StreamAlreadyEncrypted"

\* C6 witness: accept_tls was called on an open Encrypted stream and returned
\* StreamAlreadyEncrypted.
C6_Witness ==
    /\ sres.op = "accept_tls"
    /\ sres.pre = "Encrypted"
    /\ sres.pre_open
    /\ sres.res = "Tls_StreamAlreadyEncrypted"

\* ------------------------------------------------- claims on the session

Inputs == BOOLEAN \X BOOLEAN \X BOOLEAN

\* The replies of sequence o, as a set.
Replies(o) == {o[i] : i \in DOMAIN o}

Is500(text) == text \in {"500 Error", "500 Error user not found",
                         "500 Error could not decode credentials",
                         "500 Error\r\nData size is too big"}

\* AUTH PLAIN with argument a succeeds: the credentials decode to
\* \0user\0pass and the store's login returns Ok.
AuthSucceeds(a, dbok) ==
    LET d == base64_decode(a)
    IN /\ d.kind = "Ok"
       /\ Len(d.parts) >= 3
       /\ PgMailDB_login(Session, d.parts[2], d.parts[3], dbok)

\* C7 as claimed: in state StartTLS, an AUTH PLAIN that fails (and does not
\* end the session) is answered with a 500 Error reply and leaves the state
\* at StartTLS; the state becomes Auth only when the login succeeded.
C7_FailedAuthStays ==
    [][\A a \in AuthArgs, in \in Inputs :
        (/\ current_state = "StartTLS"
         /\ Session_handle_new_request(Cmd("AUTH_PLAIN", a), in[1], in[2], in[3])
         /\ ~AuthSucceeds(a, in[3])
         /\ spc' = "loop")
            => (/\ current_state' = "StartTLS"
                /\ Len(out') = 1 /\ Is500(out'[1]))]_vars

\* The pairs (state, non-loose command) that have an arm of their own in the
\* handlers; every other pair falls to a handler's `_` arm.
TransitionRows ==
    {<<"Ehlo", "STARTTLS">>, <<"StartTLS", "AUTH_PLAIN">>, <<"StartTLS", "REGISTER">>,
     <<"Auth", "MAIL_FROM">>, <<"MailFrom", "RCPT_TO">>, <<"RcptTo", "RCPT_TO">>,
     <<"RcptTo", "DATA">>, <<"Data", "MAIL_FROM">>}

NoRow(state, rd) ==
    /\ rd.kind = "cmd"
    /\ rd.t \notin LooseTypes
    /\ <<state, rd.t>> \notin TransitionRows

\* C8: a parsed non-loose command for which the state it arrives in has no
\* row changes neither the session state nor the session data, and, the
\* write succeeding, is answered with exactly `500 Error`, the session going
\* on; a failed write ends the session with that error.
C8_NoRowRejected ==
    [][\A in \in Inputs :
        (/\ NoRow(current_state, lastreq')
         /\ Session_handle_new_request(lastreq', in[1], in[2], in[3]))
            => (/\ current_state' = current_state
                /\ connection_data' = connection_data
                /\ IF in[1] THEN out' = <<"500 Error">> /\ spc' = "loop"
                            ELSE out' = <<>> /\ spc' = "err_io")]_vars

\* C8 witness: after the upgrade to TLS a second STARTTLS arrived in state
\* StartTLS and was answered `500 Error`, the state still StartTLS and the
\* session going on.
C8_Witness ==
    /\ spc = "loop"
    /\ lastreq = Cmd("STARTTLS", "")
    /\ out = <<"500 Error">>
    /\ current_state = "StartTLS"
    /\ m_stream = "Encrypted"

\* C9 as claimed: a DATA is answered `250 OK` only if insert_multiple_emails
\* returned Ok; if it returned an error the client gets a 500 Error reply
\* and no `250 OK`.
C9_AckOnlyIfStored ==
    lastreq.t = "DATA" =>
        /\ "250 OK" \in Replies(out) => ins = "ok"
        /\ ins = "err" => \E r \in Replies(out) : Is500(r)

\* C10 as claimed: a DATA that failed, by its size or in the store, does not
\* end the session, and a MAIL FROM that follows it is answered `250 OK`
\* and moves the session to MailFrom.
C10_FailedDataRecovers ==
    /\ [](dfail => spc \in {"loop", "err_io"})
    /\ [][\A a \in Addrs, in \in Inputs :
            (dfail /\ in[1] /\ Session_handle_new_request(Cmd("MAIL_FROM", a), in[1], in[2], in[3]))
                => (current_state' = "MailFrom" /\ out' = <<"250 OK">>)]_vars

Handled(in) == Session_handle_new_request(lastreq', in[1], in[2], in[3])

\* C11: a failed read of a command line, a failed write of a reply and a
\* failed TLS handshake after STARTTLS each make run() return that error,
\* and a session whose run() returned an error reads no further command and
\* writes no further reply.
C11_TransportErrorsFatal ==
    [][/\ spc \in {"err_io", "err_tls"}
            => (spc' = spc /\ out' = out /\ lastreq' = lastreq /\ m_stream' = m_stream)
       /\ \A in \in Inputs :
            Handled(in) =>
                /\ lastreq'.kind = "io" => (spc' = "err_io" /\ out' = <<>>)
                /\ (lastreq'.kind # "io" /\ ~in[1] /\ spc' # "panic")
                        => (spc' = "err_io" /\ out' = <<>>)
                /\ (current_state = "Ehlo" /\ lastreq'.t = "STARTTLS" /\ in[1] /\ ~in[2])
                        => spc' = "err_tls"
       /\ \A rd \in DataReads, in \in Inputs :
            (Session_read_data(rd, in[1], in[3]) /\ ~in[1] /\ spc' # "data")
                => (spc' = "err_io" /\ out' = out)]_vars

\* C11 witness: the handshake after STARTTLS failed; run() returned the TLS
\* error after the 220 reply, the stream gone.
C11_Witness ==
    /\ spc = "err_tls"
    /\ lastreq = Cmd("STARTTLS", "")
    /\ out = <<"220 Ready to start TLS">>
    /\ m_stream = "None"

\* C12 as claimed: when the reads fail while the DATA body is collected (the
\* connection is down), read_data_until_dot stops: the session does not stay
\* in its loop for ever.
C12_DataStopsOnFailure == (spc = "data" /\ peer = "down") ~> (spc # "data")

\* C13 as claimed: the body handed to insert_multiple_emails is at most
\* MAX_SIZE long and does not end with CR LF . CR LF.
C13_StoredBodyBounded ==
    ins # "none" =>
        /\ Len(connection_data.data) <= MAX_SIZE
        /\ ~ends_with(connection_data.data, DataEnd)

\* C14 as claimed: when a read completes the body (what was received ends
\* with the terminator), a body of exactly MAX_SIZE bytes is accepted and a
\* body of MAX_SIZE + 1 bytes is answered with a 500 Error reply, however the
\* body was divided into reads.
C14_SizeBoundary ==
    [][\A rd \in DataReads, in \in Inputs :
        (/\ rd.ok /\ in[1]
         /\ Session_read_data(rd, in[1], in[3])
         /\ ends_with(data \o rd.line, DataEnd))
            => LET n == Len(data \o rd.line) - Len(DataEnd)
               IN /\ n = MAX_SIZE => (current_state' = "Data" /\ "250 OK" \in Replies(out'))
                  /\ n = MAX_SIZE + 1 => (/\ current_state' = "RcptTo"
                                          /\ "250 OK" \notin Replies(out')
                                          /\ \E r \in Replies(out') : Is500(r))]_vars

\* C15: QUIT, the write of its reply succeeding, is answered `221 OK`, sets
\* the state to Quit, takes the connection (the stream is closed) and
\* disconnects the store; from then on the session handles no request and
\* writes nothing, and run() returns Ok.
C15_QuitEnds ==
    /\ [][/\ \A in \in Inputs :
                (lastreq'.t = "QUIT" /\ in[1] /\ Handled(in))
                    => (/\ out' = <<"221 OK">>
                        /\ current_state' = "Quit"
                        /\ connection' = "None"
                        /\ m_stream' = "None"
                        /\ ~db_connection'.conn
                        /\ spc' = "loop")
          /\ connection = "None"
                => (/\ spc' \in {spc, "ok"}
                    /\ out' = out /\ lastreq' = lastreq
                    /\ connection' = "None" /\ m_stream' = "None")]_vars
    /\ (connection = "None" /\ spc = "loop") ~> (spc = "ok")

\* C15 witness: QUIT arrived in the middle of a transaction (recipients
\* recorded) and run() has returned Ok.
C15_Witness ==
    /\ spc = "ok"
    /\ lastreq = Cmd("QUIT", "")
    /\ out = <<"221 OK">>
    /\ current_state = "Quit"
    /\ connection = "None"
    /\ connection_data.rcpt_to # <<>>

\* C16: EHLO and RSET, in whatever state they arrive and the write of the
\* reply succeeding, are answered `250 OK` and leave every field of the
\* session data empty; EHLO sets the state to Ehlo, RSET to Connected.
C16_EhloRsetReset ==
    [][\A in \in Inputs :
        (lastreq'.t \in {"EHLO", "RSET"} /\ in[1] /\ Handled(in))
            => (/\ out' = <<"250 OK">>
                /\ spc' = "loop"
                /\ connection_data' =
                       [logged_user |-> "", mail_from |-> "", rcpt_to |-> <<>>, data |-> <<>>]
                /\ current_state' = IF lastreq'.t = "EHLO" THEN "Ehlo" ELSE "Connected")]_vars

\* C16 witness: EHLO arrived after a login on the encrypted stream and reset
\* the session to Ehlo with empty data.
C16_Witness ==
    /\ spc = "loop"
    /\ lastreq.t = "EHLO"
    /\ out = <<"250 OK">>
    /\ current_state = "Ehlo"
    /\ m_stream = "Encrypted"
    /\ db_connection.user_id = "u1"
    /\ connection_data = SessionData_default

\* C17: HELP and NOOP change neither the state, nor the session data, nor
\* the stream, nor the store; the write succeeding, the one reply is `214 OK`
\* for HELP and `250 OK` for NOOP.
C17_HelpNoopFrame ==
    [][\A in \in Inputs :
        (lastreq'.t \in {"HELP", "NOOP"} /\ Handled(in))
            => (/\ current_state' = current_state
                /\ connection_data' = connection_data
                /\ connection' = connection
                /\ m_stream' = m_stream
                /\ db_connection' = db_connection
                /\ in[1] => (/\ spc' = "loop"
                             /\ out' = IF lastreq'.t = "HELP" THEN <<"214 OK">>
                                                               ELSE <<"250 OK">>))]_vars

\* C17 witness: NOOP arrived in RcptTo with recipients recorded, was answered
\* `250 OK`, and the recipients are still there.
C17_Witness ==
    /\ spc = "loop"
    /\ lastreq.t = "NOOP"
    /\ out = <<"250 OK">>
    /\ current_state = "RcptTo"
    /\ Len(connection_data.rcpt_to) = MaxRcpt

C19_ParseErrorRecovered ==
    [][\A in \in Inputs :
        (lastreq'.kind = "perr" /\ in[1] /\ Handled(in))
            => (/\ out' = <<"500 Error " \o lastreq'.arg>>
                /\ current_state' = current_state
                /\ connection_data' = connection_data
                /\ spc' = "loop")]_vars

\* C19 witness: an unparsable line arrived in RcptTo and was answered, the
\* recipients still recorded.
C19_Witness ==
    /\ spc = "loop"
    /\ lastreq.kind = "perr"
    /\ out = <<"500 Error Could not parse the SMTP command">>
    /\ current_state = "RcptTo"
    /\ connection_data.rcpt_to # <<>>

\* C20 (as amended): on STARTTLS in state Ehlo the session writes
\* `220 Ready to start TLS` and sets the state to StartTLS; then, the stream
\* being Plain, the handshake runs, and its success leaves the stream
\* Encrypted and the session going on, its failure ends the session; the
\* stream being Encrypted already, the upgrade fails and the session ends.
\* So whenever a command is read in state StartTLS the stream is Encrypted.
C20_UpgradeBeforeNextRead ==
    /\ [][\A in \in Inputs :
            (current_state = "Ehlo" /\ lastreq' = Cmd("STARTTLS", "") /\ Handled(in))
                => IF ~in[1]
                   THEN spc' = "err_io" /\ m_stream' = m_stream /\ current_state' = "Ehlo"
                   ELSE /\ out' = <<"220 Ready to start TLS">>
                        /\ current_state' = "StartTLS"
                        /\ IF m_stream = "Plain" /\ in[2]
                           THEN m_stream' = "Encrypted" /\ spc' = "loop"
                           ELSE m_stream' = "None" /\ spc' = "err_tls"]_vars
    /\ []((spc = "loop" /\ current_state = "StartTLS") => m_stream = "Encrypted")

\* C20 witness: STARTTLS in Ehlo was answered 220 and the session is at its
\* next read in state StartTLS on the Encrypted stream.
C20_Witness ==
    /\ spc = "loop"
    /\ lastreq = Cmd("STARTTLS", "")
    /\ out = <<"220 Ready to start TLS">>
    /\ current_state = "StartTLS"
    /\ m_stream = "Encrypted"

\* C20 as claimed: on STARTTLS in state Ehlo the 220 reply is written on the
\* plaintext stream and the handshake is then performed, its success
\* leaving the state StartTLS and the stream Encrypted before the next read.
C20_Original ==
    [][\A in \in Inputs :
        (current_state = "Ehlo" /\ lastreq' = Cmd("STARTTLS", "") /\ in[1] /\ Handled(in))
            => (/\ m_stream = "Plain"
                /\ out' = <<"220 Ready to start TLS">>
                /\ in[2] => (/\ current_state' = "StartTLS"
                             /\ m_stream' = "Encrypted"
                             /\ spc' = "loop"))]_vars

\* C21: a read that is pending while the peer sends nothing ends, and ends
\* with a Timeout error.
C21_ReadTimesOut ==
    (reading /\ silent) ~> (~reading /\ sres.op = "read" /\ sres.res = "Timeout")

\* C22: insert_multiple_emails is all or nothing. A call by a logged-in
\* user over a working connection with N receivers that all exist returns Ok
\* and adds exactly one row to mailBodies and N rows to emailMessages; a call
\* with a receiver that does not exist, or with no user logged in, returns an
\* error; and every call that returns an error leaves both tables as they were.
C22_InsertAllOrNothing ==
    dbres.op = "insert_multiple_emails" =>
        LET N == Len(dbres.arg)
            exist == \A i \in 1..N : users_filter(dbres.pre, dbres.pre_pg, dbres.arg[i]) # {}
            logged == dbres.pre_pg.user_id # ""
        IN /\ dbres.res = "Ok" =>
                /\ tables.mailBodies = dbres.pre.mailBodies + 1
                /\ tables.emailMessages = dbres.pre.emailMessages + N
                /\ exist /\ logged
           /\ dbres.res # "Ok" => tables = dbres.pre
           /\ (~exist \/ ~logged) => dbres.res # "Ok"
           /\ (exist /\ logged /\ dbres.pre_pg.conn /\ dbres.io) => dbres.res = "Ok"

\* A second insert, to two receivers, returned Ok.
C22_Witness ==
    /\ dbres.op = "insert_multiple_emails"
    /\ dbres.res = "Ok"
    /\ Len(dbres.arg) = 2
    /\ tables.mailBodies = 2

\* An insert made by a logged-in user over a working connection failed for
\* a receiver that does not exist, after an insert that had succeeded.
C22_WitnessError ==
    /\ dbres.op = "insert_multiple_emails"
    /\ dbres.res = "QueryError"
    /\ dbres.io
    /\ tables.mailBodies = 1

\* C23: after disconnect(), and until a connect() returns Ok, is_connected()
\* is false and every login, sign_up and insert_multiple_emails returns an
\* error and leaves the stored data as it was.
C23_DisconnectedFails ==
    dbres.pre_disc =>
        /\ dbres.op = "is_connected" => dbres.res = "false"
        /\ dbres.op \in {"login", "sign_up", "insert_multiple_emails"} =>
              dbres.res # "Ok" /\ tables = dbres.pre

\* The session i has completed its transaction: the body was accepted with
\* 250 OK and stored.
Completed(i) ==
    /\ sess[i].current_state \in {"Data", "Quit"}
    /\ sess[i].connection_data.data # <<>>

\* C24: two sessions submitting the same mail to N recipients at the same
\* time both complete, and the database then holds exactly 2 rows of
\* mailBodies and 2N rows of emailMessages.
C24_BothComplete ==
    <>(/\ \A i \in Clients : Completed(i)
       /\ tables.mailBodies = 2
       /\ tables.emailMessages = 2 * Len(sess[1].connection_data.rcpt_to))

\* For C24: what the sessions that have completed stored is in the database,
\* and nothing else, whatever the interleaving.
C24_StoredPerSession ==
    LET done == {i \in Clients : Completed(i)}
    IN /\ tables.mailBodies = Cardinality(done)
       /\ \A i \in done : tables.emailMessages = Cardinality(done) * Len(sess[i].connection_data.rcpt_to)

\* Both sessions have completed and returned, with 2 and 2 MaxRcpt rows stored.
C24_BothStored ==
    /\ \A i \in Clients : Completed(i) /\ sess[i].pc = "ok"
    /\ tables.mailBodies = 2
    /\ tables.emailMessages = 2 * MaxRcpt

\* The command token the line begins with, leading spaces apart (<<>>: none).
TokenOf(raw) ==
    LET l == trim_start(raw)
    IN IF \E t \in Tokens : starts_with(l, t)
       THEN CHOOSE t \in Tokens : starts_with(l, t)
       ELSE <<>>

ArgTypes == {"EHLO", "AUTH_PLAIN", "REGISTER", "MAIL_FROM", "RCPT_TO"}

\* C26: a line whose command takes an argument, with the argument missing,
\* empty or malformed, is a parse error: no parse returns a request that
\* carries an empty argument.
C26_NoEmptyArgument ==
    (parsed.kind = "cmd" /\ parsed.t \in ArgTypes) => parsed.arg # <<>>

\* C27: the first thing run() writes is the greeting 220 SMTP server ready,
\* and it is written before the first read: until run() has entered its loop
\* nothing was read or written, and it enters the loop having written
\* exactly the greeting (or returns the error of that write).
C27_GreetingFirst ==
    [][/\ spc = "new" => (lastreq = NoRequest /\ out = <<>>)
       /\ (spc = "new" /\ spc' # "new") =>
             /\ lastreq' = NoRequest
             /\ \/ spc' = "loop" /\ out' = <<"220 SMTP server ready">>
                \/ spc' = "err_io" /\ out' = <<>>]_vars

\* run() has written the greeting and is about to read its first line.
C27_Witness ==
    /\ spc = "loop"
    /\ lastreq = NoRequest
    /\ out = <<"220 SMTP server ready">>

\* The worker w runs an executor whose flag is set and is past every pop
\* its earlier loads of the flag allow: at the head of the loop, or after a
\* load that returned true, or its thread has ended.
Halted(w) ==
    /\ wexec[w] # 0
    /\ term_flag[wexec[w]]
    /\ \/ wpc[w] \in {"loop", "dead"}
       \/ wpc[w] = "branch" /\ wseen[w]

\* C28: stop() does not drain. A termination flag that is set is never
\* cleared; the steps of stop() leave the queue and the tasks alone; an
\* executor whose flag is set pops no task from its next load of the flag on
\* (only a pop whose load came before the store can still follow it); and
\* once every worker is at that point the tasks in the queue stay where they
\* are, unpolled.
C28_StopDoesNotDrain ==
    [][/\ \A e \in Workers : term_flag[e] => term_flag'[e]
       /\ (term_flag' # term_flag \/ (phase = "stopping" /\ phase' = "stopped")) =>
             (queue' = queue /\ tstatus' = tstatus /\ held' = held)
       /\ \A w \in Workers : Halted(w) => (Halted(w)' /\ held[w] = 0 /\ held'[w] = 0)
       /\ (\A w \in Workers : Halted(w)) =>
             (/\ Len(queue') >= Len(queue)
              /\ SubSeq(queue', 1, Len(queue)) = queue
              /\ \A t \in Tasks : tstatus[t] # "none" => tstatus'[t] = tstatus[t])]_vars

\* The runtime is stopped, every worker has seen its flag, one of them after
\* a load that returned true, and two tasks are still in the queue.
C28_Witness ==
    /\ phase = "stopped"
    /\ \A w \in Workers : Halted(w)
    /\ \E w \in Workers : wpc[w] = "branch"
    /\ Len(queue) >= 2

\* C28 as stated: an executor whose flag is set pops no further task.
C28_Original ==
    [][\A w \in Workers :
          (wexec[w] # 0 /\ term_flag[wexec[w]]) => ~(held[w] = 0 /\ held'[w] # 0)]_vars

\* C29: whatever the division of the incoming bytes into chunks, the line
\* read returns exactly when what it has accumulated first ends with CR LF:
\* while a read of an open stream is still in progress the accumulated
\* string does not end with CR LF (also when the CR and the LF came in two
\* chunks), and the string it returns on an open stream ends with CR LF.
C29_ReturnsAtFirstCrlf ==
    /\ (reading /\ AsyncStream_is_open(m_stream, peer)) => ~ends_with(response, CRLF)
    /\ (~reading /\ sres.op = "read" /\ sres.res = "Ok" /\ sres.pre_open
            /\ AsyncStream_is_open(m_stream, peer)) => ends_with(response, CRLF)

\* C30: the collection of the body returns as soon as what it has
\* accumulated ends with CR LF . CR LF, whatever the division into line
\* reads: while read_data_until_dot is still collecting, the accumulated
\* body does not end with the terminator.
C30_DataEndsAtTerminator ==
    spc = "data" => ~ends_with(data, DataEnd)

\* C31: every AUTH PLAIN received in state StartTLS, the write succeeding,
\* is answered with exactly one of 235 OK, 500 Error user not found and
\* 500 Error could not decode credentials, and the session goes on: no
\* argument makes the session task panic.
C31_AuthNeverPanics ==
    [][\A in \in Inputs :
        (current_state = "StartTLS" /\ lastreq'.t = "AUTH_PLAIN" /\ in[1] /\ Handled(in))
            => (/\ spc' = "loop"
                /\ Len(out') = 1
                /\ out'[1] \in {"235 OK", "500 Error user not found",
                                "500 Error could not decode credentials"})]_vars

\* C32: Closed is absorbing. close() leaves any stream Closed (a second
\* close() included); from Closed no call opens the stream again, and
\* write, read, accept_tls and connect_tls each return ClosedConnection.
C32_ClosedAbsorbing ==
    [][/\ Stream_close => m_stream' = "None"
       /\ m_stream = "None" =>
             /\ m_stream' = "None"
             /\ Stream_read => (~reading' /\ sres'.res = "ClosedConnection")
             /\ \A io \in BOOLEAN : Stream_write(io) => sres'.res = "ClosedConnection"
             /\ \A hs \in BOOLEAN : Stream_accept_tls(hs) => sres'.res = "ClosedConnection"
             /\ \A addr \in BOOLEAN, hs \in BOOLEAN :
                   Stream_connect_tls(addr, hs) => sres'.res = "ClosedConnection"]_vars

\* A stream was Encrypted, was closed while the peer was still connected,
\* and a later accept_tls on it has returned ClosedConnection.
C32_Witness ==
    /\ ever_enc
    /\ peer = "up"
    /\ m_stream = "None"
    /\ sres.op = "accept_tls"
    /\ sres.pre = "None"
    /\ sres.res = "ClosedConnection"

\* C33: a MAIL FROM:<a> received in state Data, the write succeeding, is
\* answered `250 OK`, moves the session to MailFrom and replaces the session
\* data by the default with a as the single entry of rcpt_to, mail_from and
\* data empty.
C33_MailFromAfterData ==
    [][\A in \in Inputs :
        (current_state = "Data" /\ lastreq'.t = "MAIL_FROM" /\ in[1] /\ Handled(in))
            => (/\ spc' = "loop"
                /\ out' = <<"250 OK">>
                /\ current_state' = "MailFrom"
                /\ connection_data'.rcpt_to = <<lastreq'.arg>>
                /\ connection_data'.mail_from = ""
                /\ connection_data'.data = <<>>
                /\ connection_data' = [SessionData_default EXCEPT !.rcpt_to = <<lastreq'.arg>>])]_vars

\* A MAIL FROM was answered `250 OK` and left the session in MailFrom with
\* its own address as the one recipient: the transaction before it has been
\* stored and its session data are gone.
C33_Witness ==
    /\ spc = "loop"
    /\ lastreq.t = "MAIL_FROM"
    /\ out = <<"250 OK">>
    /\ current_state = "MailFrom"
    /\ connection_data.rcpt_to = <<lastreq.arg>>
    /\ connection_data.data = <<>>

\* C34: commands are served one at a time. A command line is read only
\* when the handler of the line before it has returned, and every command
\* line read, the writes succeeding, gets exactly one reply; an accepted
\* DATA gets the 354 prompt and, when the body has been read, one final
\* reply after it.
C34_OneReplyPerCommand ==
    [][/\ \A in \in Inputs :
            (lastreq'.kind # "io" /\ in[1] /\ Handled(in))
                => (/\ spc = "loop"
                    /\ IF spc' = "data"
                       THEN lastreq'.t = "DATA" /\ out' = <<"354 End data with <CR><LF>.<CR><LF>">>
                       ELSE Len(out') = 1)
       /\ \A rd \in DataReads, dbok \in BOOLEAN :
            Session_read_data(rd, TRUE, dbok)
                => (/\ Len(out) = 1
                    /\ IF spc' = "data" THEN out' = out
                       ELSE Len(out') = 2 /\ out'[1] = out[1])]_vars

\* C35: the list handed to insert_multiple_emails is connection_data.rcpt_to
\* as it stands when the body has been read, and that list holds the
\* addresses of the RCPT TO commands accepted since the transaction's MAIL
\* FROM, in order, and no other address: an accepted MAIL FROM leaves it
\* empty, an accepted RCPT TO appends its address, and no other step of the
\* transaction changes it.
C35_RecipientsAreRcptTo ==
    [][/\ \A in \in Inputs :
            Handled(in) =>
                LET accepted == spc' = "loop" /\ out' = <<"250 OK">>
                IN /\ (accepted /\ lastreq'.t = "MAIL_FROM")
                        => connection_data'.rcpt_to = <<>>
                   /\ (accepted /\ lastreq'.t = "RCPT_TO")
                        => connection_data'.rcpt_to =
                               Append(connection_data.rcpt_to, lastreq'.arg)
                   /\ (/\ spc' \in {"loop", "data"}
                       /\ lastreq'.t \notin {"MAIL_FROM", "RCPT_TO"}
                       /\ current_state' \in {"MailFrom", "RcptTo"})
                        => connection_data'.rcpt_to = connection_data.rcpt_to
       /\ \A rd \in DataReads, wr \in BOOLEAN, dbok \in BOOLEAN :
            Session_read_data(rd, wr, dbok)
                => connection_data'.rcpt_to = connection_data.rcpt_to]_vars

\* The states of the session after the upgrade to TLS.
SecuredStates == {"StartTLS", "Auth", "MailFrom", "RcptTo", "Data"}

\* C36: whenever a command is dispatched, or a line of a message body is
\* read, in one of the states StartTLS, Auth, MailFrom, RcptTo and Data, the
\* stream is Encrypted: no credentials, envelope or body are accepted over
\* the Plain stream.
C36_TlsBeforeAuth ==
    /\ [](((spc \in {"loop", "data"}) /\ connection = "Some" /\ current_state \in SecuredStates)
            => m_stream = "Encrypted")
    /\ [][/\ \A in \in Inputs :
                (current_state \in SecuredStates /\ Handled(in)) => m_stream = "Encrypted"
           /\ \A rd \in DataReads, wr \in BOOLEAN, dbok \in BOOLEAN :
                Session_read_data(rd, wr, dbok) => m_stream = "Encrypted"]_vars

\* A RCPT TO was dispatched in state MailFrom and accepted, on the Encrypted
\* stream.
C36_Witness ==
    /\ spc = "loop"
    /\ lastreq.t = "RCPT_TO"
    /\ out = <<"250 OK">>
    /\ current_state = "RcptTo"
    /\ Len(connection_data.rcpt_to) = 1
    /\ m_stream = "Encrypted"

\* C37: the unreachable! of handle_following_quit is never executed. In
\* state Quit the connection has been taken (and the stream dropped with
\* it) or run() has returned, so no command is dispatched in state Quit and
\* no panic happens in it.
C37_QuitNeverDispatched ==
    /\ [](current_state = "Quit"
            => (connection = "None" \/ spc \in {"ok", "err_io", "err_tls", "err_db"}))
    /\ [](spc = "panic" => current_state # "Quit")
    /\ [][\A in \in Inputs : Handled(in) => current_state # "Quit"]_vars

\* The write of 221 OK failed: the state is Quit with the connection still
\* in place, and run() has returned the error.
C37_Witness ==
    /\ current_state = "Quit"
    /\ lastreq = Cmd("QUIT", "")
    /\ connection = "Some"
    /\ AsyncStream_is_open(m_stream, peer)
    /\ spc = "err_io"

\* The stream has been upgraded and the session has left the mail path: it
\* is in Ehlo or Connected, or it has ended by QUIT or by a failed STARTTLS.
OffPath ==
    /\ ever_enc
    /\ \/ current_state \in {"Ehlo", "Connected", "Quit"}
       \/ current_state = "StartTLS" /\ spc = "err_tls"

\* C38: an EHLO or RSET handled on the Encrypted stream takes the session
\* off the mail path for good. The state becomes Ehlo or Connected; from
\* there the only command that leaves these two states is STARTTLS in Ehlo,
\* and its accept_tls fails with StreamAlreadyEncrypted, closes the stream
\* and ends the session; so no body is read and no insert is made after it.
C38_NoMailAfterReset ==
    [][/\ \A in \in Inputs :
            /\ (m_stream = "Encrypted" /\ lastreq'.t \in {"EHLO", "RSET"} /\ Handled(in))
                    => (OffPath' /\ current_state' \in {"Ehlo", "Connected"})
            /\ (/\ OffPath
                /\ current_state = "Ehlo"
                /\ lastreq' = Cmd("STARTTLS", "")
                /\ in[1]
                /\ Handled(in))
                    => (/\ AsyncStream_accept_tls(m_stream, peer, in[2]).res
                            = "Tls_StreamAlreadyEncrypted"
                        /\ m_stream' = "None"
                        /\ spc' = "err_tls")
       /\ OffPath => (/\ OffPath'
                      /\ spc' # "data"
                      /\ ins' = "none"
                      /\ current_state' \notin {"Auth", "MailFrom", "RcptTo", "Data"})]_vars

\* After the upgrade and an EHLO or RSET that followed it, a second STARTTLS
\* was answered 220, has failed in accept_tls and has ended the session.
C38_Witness ==
    /\ ever_enc
    /\ connection_data = SessionData_default
    /\ lastreq = Cmd("STARTTLS", "")
    /\ out = <<"220 Ready to start TLS">>
    /\ current_state = "StartTLS"
    /\ m_stream = "None"
    /\ spc = "err_tls"

\* C39: a failed upgrade closes the stream. An accept_tls or connect_tls
\* called on an open stream that returns an error (the handshake failed, or
\* the stream was Encrypted already) leaves the inner stream absent, and
\* from then on the stream stays absent and every read and write returns
\* ClosedConnection.
C39_FailedUpgradeCloses ==
    [][/\ \A addr \in BOOLEAN, hs \in BOOLEAN :
            (/\ AsyncStream_is_open(m_stream, peer)
             /\ Stream_accept_tls(hs) \/ Stream_connect_tls(addr, hs)
             /\ sres'.res # "Ok")
                => (/\ m_stream' = "None"
                    /\ ~AsyncStream_is_open(m_stream', peer')
                    /\ AsyncStream_write(m_stream', peer', TRUE) = "ClosedConnection")
       /\ (sres.op \in {"accept_tls", "connect_tls"} /\ sres.pre_open /\ sres.res # "Ok")
            => (/\ m_stream' = "None"
                /\ Stream_read => sres'.res = "ClosedConnection"
                /\ \A io \in BOOLEAN : Stream_write(io) => sres'.res = "ClosedConnection")]_vars

\* connect_tls was called on an open Plain stream, its handshake failed, and
\* the stream is left without its inner stream while the peer is connected.
C39_Witness ==
    /\ sres.op = "connect_tls"
    /\ sres.pre = "Plain"
    /\ sres.pre_open
    /\ sres.res = "Tls_NativeTls"
    /\ m_stream = "None"
    /\ peer = "up"

\* The Terminate messages in the channel.
Terminates == {i \in DOMAIN channel : channel[i].kind = "Terminate"}

\* C40: with jobs that return, every job handed to execute() before the
\* pool is dropped is called exactly once, by one worker; the drop sends one
\* Terminate per worker behind every job sent before, each worker consumes
\* exactly one Terminate, and the joins of all the workers complete, with
\* the channel empty and every job sent called once.
C40_PoolDelivers ==
    /\ [](\A j \in Jobs :
            /\ runs[j] <= 1
            /\ Cardinality({w \in Workers : wpc[w] = "loop" /\ wexec[w] = j}) <= 1
            /\ runs[j] = 1 => \A i \in DOMAIN channel : channel[i] # NewJob(j))
    /\ [](phase \in {"joining", "dropped"}
            => (/\ Cardinality(Terminates) + Cardinality({w \in Workers : wpc[w] = "exited"})
                    = NumWorkers
                /\ \A i \in Terminates : \A k \in DOMAIN channel : k > i => k \in Terminates))
    /\ [](phase = "dropped"
            => (/\ channel = <<>>
                /\ \A w \in Workers : wpc[w] = "exited"))
    /\ \A j \in Jobs : (Sent(j) ~> runs[j] = 1)
    /\ (phase = "joining" ~> phase = "dropped")

\* More jobs than there are workers were sent, the pool was dropped, its
\* joins are over and every job has been called once.
C40_Witness ==
    /\ phase = "dropped"
    /\ \A j \in Jobs : runs[j] = 1
    /\ \A w \in Workers : wpc[w] = "exited"

====
